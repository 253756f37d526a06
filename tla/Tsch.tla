-------------------------------- MODULE Tsch --------------------------------
(***************************************************************************)
(* The TSCH MAC of a node, core/net/mac/tsch.  The main thread sends,      *)
(* reports and joins (tsch.c, tsch-queue.c); the interrupt of a real-time  *)
(* timer runs the slot operation (tsch-slot-operation.c), a protothread    *)
(* that yields in the middle of a slot.  They share the queues of the      *)
(* neighbours, a ring of packets that left them, a ring of received frames *)
(* and a lock, for which the main thread waits and the interrupt does not. *)
(*                                                                         *)
(* An interrupt takes no time between two of its yields, so that one step  *)
(* is one run of the slot operation.  Time is left out: an armed timer may *)
(* fire, and no deadline is missed.  The schedule does not change.  The    *)
(* node leaves the network when the slot operation finds it out of sync;   *)
(* TschLeave.tla adds the other way.  A ring of size n holds n - 1 (the    *)
(* index with the empty place is what tells full from empty); where the    *)
(* index does not matter a ring is the sequence of what it holds.          *)
(***************************************************************************)
EXTENDS Naturals, Sequences, FiniteSets, SequencesExt

CONSTANTS
  Unicast,        \* addresses of neighbours
  Receivers,      \* to whom packets are sent, of Unicast and BC
  Parents,        \* those of Unicast that may be time sources
  EB, BC,         \* tsch_eb_address and tsch_broadcast_address
  Packet,         \* the blocks of packet_memb
  Slotframe,      \* for every timeslot, a link and its backup
  QueueSize,      \* TSCH_QUEUE_NUM_PER_NEIGHBOR
  DequeuedSize,   \* TSCH_DEQUEUED_ARRAY_SIZE
  InputSize,      \* TSCH_MAX_INCOMING_PACKETS
  MaxNeighbors,   \* TSCH_QUEUE_MAX_NEIGHBOR_QUEUES
  MaxRetries,     \* TSCH_MAC_MAX_FRAME_RETRIES
  MinBE, MaxBE,   \* TSCH_MAC_MIN_BE and TSCH_MAC_MAX_BE
  NULL

Addr == Unicast \cup {EB, BC}
IsBroadcast(a) == a \in {EB, BC}
Link == [addr: Addr, options: SUBSET {"TX", "RX", "SHARED"},
         type: {"normal", "advertising", "advertising only"}]
Status == {"OK", "ERR"}      \* ERR stands for NOACK and for every other failure
Contents == [addr: Addr, transmissions: Nat, ret: Status]    \* struct tsch_packet
TxLinksCount(a) ==
  Cardinality({i \in DOMAIN Slotframe : LET l == Slotframe[i].link IN
                                          l.addr = a /\ "TX" \in l.options})

ASSUME TschAssumption ==
  /\ Receivers \subseteq Unicast \cup {BC} /\ Parents \subseteq Unicast
  /\ IsFiniteSet(Unicast)
  /\ EB # BC /\ EB \notin Unicast /\ BC \notin Unicast
  /\ NULL \notin Addr \cup Packet \cup Contents \cup Link \cup Nat
  /\ Slotframe \in Seq([link: Link, backup: Link \cup {NULL}]) /\ Slotframe # <<>>
  /\ QueueSize \in Nat \ {0, 1} /\ DequeuedSize \in Nat \ {0, 1}
  /\ InputSize \in Nat \ {0, 1}
  /\ MaxNeighbors \in Nat /\ MaxRetries \in Nat
  \* tsch_queue_init and the schedule find room for their neighbours.
  /\ Cardinality({a \in Unicast : TxLinksCount(a) > 0}) + 2 <= MaxNeighbors
  /\ MinBE \in Nat /\ MaxBE \in Nat /\ MinBE <= MaxBE

VARIABLES
  tsch_is_associated,
  scanning,        \* tsch_process is in tsch_scan
  tsch_locked, tsch_lock_requested,
  neighbor_list,   \* addresses: a neighbour is found by its own
  tx_ringbuf,      \* the packets of every neighbour
  backoff,         \* the backoff window and exponent of every neighbour
  time_source,     \* the neighbour with is_time_source
  packet,          \* the contents of the blocks that are taken
  dequeued,        \* dequeued_ringbuf with dequeued_array
  input,           \* the indices of input_ringbuf
  polled,          \* a poll of tsch_pending_events_process is asked
  current_link,
  asn,             \* tsch_current_asn, modulo the slotframe
  slot,            \* where the slot operation is
  op,              \* the main thread's call that takes the lock or queues a packet
  main             \* where the main thread is outside of that call

lockvars == <<tsch_locked, tsch_lock_requested>>
nbrvars == <<neighbor_list, tx_ringbuf, backoff, time_source, packet>>
ringvars == <<dequeued, input, polled>>
slotvars == <<tsch_is_associated, current_link, asn, slot>>
vars == <<lockvars, nbrvars, ringvars, slotvars, scanning, op, main>>

Idle == [at |-> "idle"]
Armed == [at |-> "armed"]     \* the timer is set to the start of a slot
Off == [at |-> "off"]
Job == [do: {"send", "source", "join", "remove"}, addr: Addr]
NoBackoff == [window |-> 0, exponent |-> MinBE]    \* tsch_queue_backoff_reset
tsch_in_slot_operation == slot.at \in {"tx", "rx", "ack"}

TschTypeOK ==
  /\ {tsch_is_associated, scanning, tsch_locked, tsch_lock_requested, polled} \subseteq BOOLEAN
  /\ neighbor_list \in Seq(Addr) /\ Len(neighbor_list) <= MaxNeighbors
  /\ tx_ringbuf \in [Addr -> Seq(Packet)]
  /\ \A a \in Addr : Len(tx_ringbuf[a]) < QueueSize
  /\ backoff \in [Addr -> [window: Nat, exponent: MinBE..MaxBE]]
  /\ \A a \in Addr : backoff[a].window \in {0} \cup 1..2^backoff[a].exponent
  /\ time_source \in Unicast \cup {NULL}
  /\ packet \in [Packet -> Contents \cup {NULL}]
  /\ \A p \in Packet : packet[p] # NULL => packet[p].transmissions <= MaxRetries + 1
  /\ dequeued \in Seq(Packet) /\ Len(dequeued) < DequeuedSize
  /\ input \in [put: 0..(InputSize - 1), get: 0..(InputSize - 1)]
  /\ current_link \in Link \cup {NULL} /\ asn \in DOMAIN Slotframe
  /\ slot \in {Off, Armed, [at |-> "rx"], [at |-> "ack"]} \cup [at: {"tx"}, n: Addr, p: Packet]
  /\ op \in {Idle} \cup [at: {"lock", "wait", "locked", "queue"}, job: Job]
            \cup [at: {"header"}, p: Packet]
  /\ main \in {Idle} \cup [at: {"rx", "input", "tx", "sent", "sweep", "flush", "flushed",
                                "last sweep"},
                           reset: BOOLEAN, todo: Seq(Addr), p: Packet \cup {NULL},
                           index: 0..(InputSize - 1) \cup {NULL}]

\* tsch_process begins to scan; the links are installed and their neighbours added.
TschInit ==
  /\ tsch_is_associated = FALSE /\ scanning = TRUE
  /\ tsch_locked = FALSE /\ tsch_lock_requested = FALSE
  /\ neighbor_list \in {<<EB, BC>> \o s : s \in SetToSeqs({a \in Unicast : TxLinksCount(a) > 0})}
  /\ tx_ringbuf = [a \in Addr |-> <<>>] /\ backoff = [a \in Addr |-> NoBackoff]
  /\ time_source = NULL
  /\ packet = [p \in Packet |-> NULL]
  /\ dequeued = <<>> /\ input = [put |-> 0, get |-> 0] /\ polled = FALSE
  /\ current_link = NULL /\ asn = 1 /\ slot = Off
  /\ op = Idle /\ main = Idle

PutIn(ring, size, x) == IF Len(ring) = size - 1 THEN ring ELSE Append(ring, x)
DropHead(ring) == IF ring = <<>> THEN ring ELSE Tail(ring)      \* ringbufindex_get
Listed(a) == \E i \in DOMAIN neighbor_list : neighbor_list[i] = a

----------------------------------------------------------------------------
(* Calls of the main thread that may take the lock.  A neighbour that is   *)
(* not listed is added first.                                              *)

Call(do, a) ==
  /\ op = Idle
  /\ op' = [at |-> IF Listed(a) /\ do # "remove" THEN "queue" ELSE "lock",
            job |-> [do |-> do, addr |-> a]]
  /\ UNCHANGED <<lockvars, nbrvars, ringvars, slotvars, scanning>>

\* send_packet, from a process or from a callback of the MAC.
SendPacket(a) ==
  /\ tsch_is_associated /\ main.at \in {"idle", "input", "sent"}
  /\ Call("send", a) /\ UNCHANGED main

\* tsch_send_eb_process: one EB at a time.
SendEB ==
  /\ tsch_is_associated /\ main = Idle /\ tx_ringbuf[EB] = <<>>
  /\ Call("send", EB) /\ UNCHANGED main

\* tsch_queue_update_time_source, called by the routing protocol.
UpdateTimeSource(a) ==
  /\ tsch_is_associated /\ main = Idle
  /\ Call("source", a) /\ UNCHANGED main

\* tsch_scan has read an EB of a: tsch_associate.
TschAssociate(a) ==
  /\ scanning /\ main = Idle
  /\ Call("join", a) /\ UNCHANGED main

RequestLock ==
  /\ op.at = "lock"
  /\ tsch_lock_requested' = TRUE
  /\ op' = [op EXCEPT !.at = "wait"]
  /\ UNCHANGED <<tsch_locked, nbrvars, ringvars, slotvars, scanning, main>>

NeverWaits == TRUE
SlotIsOver == ~tsch_in_slot_operation
TakeLock ==
  /\ op.at = "wait" /\ SlotIsOver
  /\ tsch_locked' = TRUE /\ tsch_lock_requested' = FALSE
  /\ op' = [op EXCEPT !.at = "locked"]
  /\ UNCHANGED <<nbrvars, ringvars, slotvars, scanning, main>>

Unlock == tsch_locked' = FALSE /\ UNCHANGED tsch_lock_requested

\* tsch_queue_add_nbr: neighbor_memb may be exhausted.
AddNbr ==
  /\ op.at = "locked" /\ op.job.do # "remove"
  /\ neighbor_list' = IF Len(neighbor_list) < MaxNeighbors
                      THEN Append(neighbor_list, op.job.addr) ELSE neighbor_list
  /\ Unlock
  /\ op' = [op EXCEPT !.at = "queue"]
  /\ UNCHANGED <<tx_ringbuf, backoff, time_source, packet, ringvars, slotvars,
                 scanning, main>>

\* tsch_queue_remove_nbr.  Its queue is empty: there is nothing to flush.  The
\* block's next user starts afresh, which is anticipated here.
RemoveNbr ==
  /\ op.at = "locked" /\ op.job.do = "remove"
  /\ neighbor_list' = RemoveFirst(neighbor_list, op.job.addr)
  /\ backoff' = [backoff EXCEPT ![op.job.addr] = NoBackoff]
  /\ Unlock
  /\ op' = Idle
  /\ UNCHANGED <<tx_ringbuf, time_source, packet, ringvars, slotvars, scanning, main>>

HasRoom(a) == Listed(a) /\ Len(tx_ringbuf[a]) < QueueSize - 1

\* tsch_queue_add_packet.  From here the slot operation can see the packet.
Accept(p) ==
  /\ op.at = "queue" /\ op.job.do = "send"
  /\ HasRoom(op.job.addr) /\ packet[p] = NULL
  /\ packet' = [packet EXCEPT ![p] =
                  [addr |-> op.job.addr, transmissions |-> 0, ret |-> "ERR"]]
  /\ tx_ringbuf' = [tx_ringbuf EXCEPT ![op.job.addr] = Append(@, p)]
  /\ op' = [at |-> "header", p |-> p]
  /\ UNCHANGED <<lockvars, neighbor_list, backoff, time_source, ringvars, slotvars,
                 scanning, main>>

\* There is no neighbour, no room, no packet or no queuebuf, which other modules
\* use too.  The sender is told MAC_TX_ERR before send_packet returns.
Reject ==
  /\ op.at = "queue" /\ op.job.do = "send"
  /\ op' = Idle
  /\ UNCHANGED <<lockvars, nbrvars, ringvars, slotvars, scanning, main>>

\* p->header_len, and for an EB the offset of its Sync IE, are set by the callers
\* of tsch_queue_add_packet.
SetHeader ==
  /\ op.at = "header"
  /\ op' = Idle
  /\ UNCHANGED <<lockvars, nbrvars, ringvars, slotvars, scanning, main>>

SetTimeSource ==
  /\ op.at = "queue" /\ op.job.do = "source"
  /\ time_source' = IF Listed(op.job.addr) THEN op.job.addr ELSE time_source
  /\ op' = Idle
  /\ UNCHANGED <<lockvars, neighbor_list, tx_ringbuf, backoff, packet, ringvars,
                 slotvars, scanning, main>>

\* The rest of tsch_associate, and tsch_slot_operation_start: a slot operation
\* that still runs keeps its place, because the timer is its own.
Join(k) ==
  /\ op.at = "queue" /\ op.job.do = "join" /\ Listed(op.job.addr)
  /\ time_source' = op.job.addr
  /\ tsch_is_associated' = TRUE /\ scanning' = FALSE
  /\ asn' = k /\ current_link' = Slotframe[k].link
  /\ slot' = IF slot = Off THEN Armed ELSE slot
  /\ op' = Idle
  /\ UNCHANGED <<lockvars, neighbor_list, tx_ringbuf, backoff, packet, ringvars, main>>

JoinFails ==
  /\ op.at = "queue" /\ op.job.do = "join" /\ ~Listed(op.job.addr)
  /\ op' = Idle
  /\ UNCHANGED <<lockvars, nbrvars, ringvars, slotvars, scanning, main>>

----------------------------------------------------------------------------
(* tsch_pending_events_process and tsch_reset, outside of those calls.     *)

MainStep == op = Idle /\ UNCHANGED <<op, lockvars, neighbor_list, tsch_is_associated,
                                     asn, slot>>

\* todo: the neighbours a loop has still to visit; p: the packet that is reported;
\* index: the place of input_array that eb_input reads.
Process(reset) == [at |-> "rx", reset |-> reset, todo |-> <<>>, p |-> NULL, index |-> NULL]

PendingEvents ==
  /\ MainStep /\ main = Idle /\ polled
  /\ polled' = FALSE
  /\ main' = Process(FALSE)
  /\ UNCHANGED <<tx_ringbuf, backoff, time_source, packet, dequeued, input,
                 current_link, scanning>>

\* tsch_process wakes up because the node has left: tsch_reset posts
\* synchronously to the process of the pending events.
AnyPoll == ~scanning
HasLeft == ~tsch_is_associated /\ ~scanning
TschProcess ==
  /\ MainStep /\ main = Idle /\ HasLeft
  /\ main' = Process(TRUE)
  /\ UNCHANGED <<tx_ringbuf, backoff, time_source, packet, ringvars, current_link,
                 scanning>>

\* tsch_rx_process_pending copies a data frame and frees its place; of an EB the
\* place is freed first and read, by eb_input, afterwards.
RxProcessPending ==
  /\ MainStep /\ main.at = "rx"
  /\ IF input.get = input.put
     THEN main' = [main EXCEPT !.at = "tx"] /\ UNCHANGED input
     ELSE /\ input' = [input EXCEPT !.get = (@ + 1) % InputSize]
          /\ \E i \in {NULL, input.get} :
               main' = [main EXCEPT !.at = "input", !.index = i]
  /\ UNCHANGED <<tx_ringbuf, backoff, time_source, packet, dequeued, polled,
                 current_link, scanning>>

\* packet_input or eb_input returns.
InputReturns ==
  /\ MainStep /\ main.at = "input"
  /\ main' = [main EXCEPT !.at = "rx", !.index = NULL]
  /\ UNCHANGED <<tx_ringbuf, backoff, time_source, packet, ringvars, current_link,
                 scanning>>

\* tsch_tx_process_pending: the packet stays in the ring while it is reported.
TxProcessPending ==
  /\ MainStep /\ main.at = "tx"
  /\ main' = IF dequeued # <<>> THEN [main EXCEPT !.at = "sent", !.p = Head(dequeued)]
             ELSE IF main.reset THEN [main EXCEPT !.at = "flush", !.todo = neighbor_list]
             ELSE Idle
  /\ UNCHANGED <<tx_ringbuf, backoff, time_source, packet, ringvars, current_link,
                 scanning>>

\* The sent callback returns; the packet is freed.
SentReturns ==
  /\ MainStep /\ main.at = "sent"
  /\ packet' = [packet EXCEPT ![main.p] = NULL]
  /\ main' = [main EXCEPT !.at = "sweep", !.p = NULL, !.todo = neighbor_list]
  /\ UNCHANGED <<tx_ringbuf, backoff, time_source, ringvars, current_link, scanning>>

\* tsch_queue_free_unused_neighbors, one neighbour after the other.
NotNeeded(a) == ~IsBroadcast(a) /\ a # time_source /\ TxLinksCount(a) = 0
Unused(a) == NotNeeded(a) /\ tx_ringbuf[a] = <<>>
Sweep ==
  /\ main.at \in {"sweep", "last sweep"} /\ main.todo # <<>> /\ op = Idle
  /\ main' = [main EXCEPT !.todo = Tail(@)]
  /\ LET a == Head(main.todo) IN
       IF Unused(a) THEN Call("remove", a)
       ELSE UNCHANGED <<op, lockvars, nbrvars, ringvars, slotvars, scanning>>

SweepDone ==
  /\ MainStep /\ main.at = "sweep" /\ main.todo = <<>>
  /\ dequeued' = DropHead(dequeued)
  /\ main' = [main EXCEPT !.at = "tx"]
  /\ UNCHANGED <<tx_ringbuf, backoff, time_source, packet, input, polled,
                 current_link, scanning>>

\* The oldest packet of the queue: ringbufindex_get.
Newest(a) == Last(tx_ringbuf[a])
Flushed(a) == Head(tx_ringbuf[a])

\* tsch_queue_reset, which does not take the lock.
FlushNbrQueue ==
  /\ MainStep /\ main.at = "flush" /\ main.todo # <<>>
  /\ LET a == Head(main.todo) IN
       IF tx_ringbuf[a] # <<>>
       THEN /\ tx_ringbuf' = [tx_ringbuf EXCEPT ![a] = Tail(@)]
            /\ main' = [main EXCEPT !.at = "flushed", !.p = Flushed(a)]
            /\ UNCHANGED backoff
       ELSE /\ backoff' = [backoff EXCEPT ![a] = NoBackoff]
            /\ main' = [main EXCEPT !.todo = Tail(@)]
            /\ UNCHANGED tx_ringbuf
  /\ UNCHANGED <<time_source, packet, ringvars, current_link, scanning>>

FlushedReturns ==
  /\ MainStep /\ main.at = "flushed"
  /\ packet' = [packet EXCEPT ![main.p] = NULL]
  /\ main' = [main EXCEPT !.at = "flush", !.p = NULL]
  /\ UNCHANGED <<tx_ringbuf, backoff, time_source, ringvars, current_link, scanning>>

FlushDone ==
  /\ MainStep /\ main.at = "flush" /\ main.todo = <<>>
  /\ main' = [main EXCEPT !.at = "last sweep", !.todo = neighbor_list]
  /\ UNCHANGED <<tx_ringbuf, backoff, time_source, packet, ringvars, current_link,
                 scanning>>

\* The rest of tsch_reset; tsch_process scans again.
ResetDone ==
  /\ MainStep /\ main.at = "last sweep" /\ main.todo = <<>>
  /\ time_source' = NULL /\ current_link' = NULL
  /\ scanning' = TRUE
  /\ main' = Idle
  /\ UNCHANGED <<tx_ringbuf, backoff, packet, ringvars>>

----------------------------------------------------------------------------
(* The slot operation *)

\* tsch_queue_get_packet_for_nbr
PacketForNbr(a, l) ==
  IF tsch_locked \/ ~Listed(a) \/ tx_ringbuf[a] = <<>>
     \/ ("SHARED" \in l.options /\ backoff[a].window # 0)
  THEN NULL ELSE Head(tx_ringbuf[a])

\* tsch_queue_get_unicast_packet_for_any: the first in the list.
ForAny(l) == {i \in DOMAIN neighbor_list :
  LET a == neighbor_list[i] IN
    ~IsBroadcast(a) /\ TxLinksCount(a) = 0 /\ PacketForNbr(a, l) # NULL}

\* get_packet_and_neighbor_for_link: the neighbour whose packet is to be sent.
NbrForLink(l) ==
  CASE "TX" \notin l.options -> NULL
    [] "TX" \in l.options /\ l.type # "normal" /\ PacketForNbr(EB, l) # NULL -> EB
    [] OTHER ->
         IF l.type = "advertising only" THEN NULL
         ELSE IF PacketForNbr(l.addr, l) # NULL THEN l.addr
         ELSE IF l.addr = BC /\ ForAny(l) # {}
              THEN neighbor_list[CHOOSE i \in ForAny(l) : \A j \in ForAny(l) : i <= j]
         ELSE NULL

\* The backup link is used when there is nothing to do with the first one.
LinkOfSlot ==
  LET backup == Slotframe[asn].backup IN
  IF NbrForLink(current_link) = NULL /\ "RX" \notin current_link.options /\ backup # NULL
  THEN backup ELSE current_link

IsShared(l) == "TX" \in l.options /\ "SHARED" \in l.options

\* tsch_queue_update_all_backoff_windows, which does nothing when locked.
LinkOfItsOwn(a, l) == ~tsch_locked /\ Listed(a) /\ l.addr = a
Decrements(a, l) ==
  /\ ~tsch_locked /\ Listed(a)
  /\ IF TxLinksCount(a) = 0 THEN l.addr = BC ELSE l.addr = a
AfterSlot(b, l) ==
  [a \in Addr |-> IF b[a].window # 0 /\ l # NULL /\ IsShared(l) /\ Decrements(a, l)
                 THEN [b[a] EXCEPT !.window = @ - 1] ELSE b[a]]

\* The end of a slot that was run, or skipped, with link l; b is the backoff so far.
\* tsch_schedule_get_next_active_link finds nothing when locked.
NextSlot(b, l) ==
  /\ backoff' = AfterSlot(b, l)
  /\ asn' = (asn % Len(Slotframe)) + 1
  /\ current_link' = IF tsch_locked THEN NULL ELSE Slotframe[asn'].link
  /\ slot' = Armed
  /\ UNCHANGED tsch_is_associated
LoseSync(b) ==
  /\ tsch_is_associated' = FALSE
  /\ backoff' = b
  /\ slot' = Off
  /\ UNCHANGED <<asn, current_link>>
EndSlot(b, l) == NextSlot(b, l) \/ LoseSync(b)

SlotStep == UNCHANGED <<lockvars, neighbor_list, time_source, scanning, op, main>>
SlotMayRun == slot = Armed /\ tsch_is_associated
RunsAnyway == SlotMayRun /\ current_link # NULL
Runs == RunsAnyway /\ ~tsch_lock_requested

SkipSlot ==
  /\ SlotStep /\ SlotMayRun /\ ~Runs
  /\ EndSlot(backoff, current_link)
  /\ UNCHANGED <<tx_ringbuf, packet, ringvars>>

NeverFull == FALSE
InputFull == (input.put + 1) % InputSize = input.get
DequeuedFull == Len(dequeued) = DequeuedSize - 1

\* There is nothing to send and no receiving, or the ring is full that the slot
\* would put a frame or a packet into.
IdleSlot ==
  /\ SlotStep /\ Runs
  /\ IF NbrForLink(LinkOfSlot) # NULL THEN DequeuedFull
     ELSE "RX" \in LinkOfSlot.options => InputFull
  /\ EndSlot(backoff, LinkOfSlot)
  /\ UNCHANGED <<tx_ringbuf, packet, ringvars>>

StartTx ==
  /\ SlotStep /\ Runs
  /\ NbrForLink(LinkOfSlot) # NULL /\ ~DequeuedFull
  /\ slot' = [at |-> "tx", n |-> NbrForLink(LinkOfSlot),
              p |-> Head(tx_ringbuf[NbrForLink(LinkOfSlot)])]
  /\ current_link' = LinkOfSlot
  /\ UNCHANGED <<tsch_is_associated, asn, backoff, tx_ringbuf, packet,
                 ringvars>>

\* update_neighbor_state: what the backoff of a unicast neighbour may become.
NoMaximum(b) == {[window |-> w, exponent |-> b.exponent + 1] : w \in 1..2^(b.exponent + 1)}
Inc(b) == LET e == IF b.exponent + 1 < MaxBE THEN b.exponent + 1 ELSE MaxBE
          IN {[window |-> w, exponent |-> e] : w \in 1..2^e}
Backoffs(n, status, rest) ==
  LET shared == "SHARED" \in current_link.options IN
  IF IsBroadcast(n) THEN {backoff[n]}
  ELSE IF status = "OK" THEN {IF shared \/ rest = <<>> THEN NoBackoff ELSE backoff[n]}
  ELSE IF shared THEN Inc(backoff[n]) ELSE {backoff[n]}

\* The radio has sent the packet or not, and its acknowledgement has come or not.
\* When the radio could not prepare it mac_tx_status, which is static, is that of
\* the packet before it: any status is possible.
TxEnd(status) ==
  /\ SlotStep /\ slot.at = "tx"
  /\ LET n == slot.n
         p == slot.p
         tries == packet[p].transmissions + 1
         leaves == status = "OK" \/ tries >= MaxRetries + 1
         rest == IF leaves THEN DropHead(tx_ringbuf[n]) ELSE tx_ringbuf[n]
     IN /\ packet' = [packet EXCEPT ![p].transmissions = tries, ![p].ret = status]
        /\ tx_ringbuf' = [tx_ringbuf EXCEPT ![n] = rest]
        /\ dequeued' = IF leaves THEN PutIn(dequeued, DequeuedSize, p) ELSE dequeued
        /\ \E b \in Backoffs(n, status, rest) :
             EndSlot([backoff EXCEPT ![n] = b], current_link)
  /\ polled' = TRUE
  /\ UNCHANGED input

StartRx ==
  /\ SlotStep /\ Runs
  /\ NbrForLink(LinkOfSlot) = NULL /\ "RX" \in LinkOfSlot.options /\ ~InputFull
  /\ slot' = [at |-> "rx"]
  /\ current_link' = LinkOfSlot
  /\ UNCHANGED <<tsch_is_associated, asn, backoff, tx_ringbuf, packet,
                 ringvars>>

\* A frame for this node is read into input_array at input.put, then acknowledged.
RxFrame ==
  /\ SlotStep /\ slot.at = "rx"
  /\ slot' = [at |-> "ack"]
  /\ UNCHANGED <<tsch_is_associated, asn, current_link, backoff,
                 tx_ringbuf, packet, ringvars>>

\* There was no frame, or none for this node; or the frame is put into the ring.
RxEnd ==
  /\ SlotStep /\ slot.at \in {"rx", "ack"}
  /\ IF slot.at = "ack"
     THEN input' = [input EXCEPT !.put = (@ + 1) % InputSize] /\ polled' = TRUE
     ELSE UNCHANGED <<input, polled>>
  /\ EndSlot(backoff, current_link)
  /\ UNCHANGED <<tx_ringbuf, packet, dequeued>>

Slot == \/ SkipSlot \/ IdleSlot \/ StartTx \/ StartRx \/ RxFrame \/ RxEnd
        \/ \E status \in Status : TxEnd(status)

Main == \/ RequestLock \/ TakeLock \/ AddNbr \/ RemoveNbr
        \/ \E p \in Packet : Accept(p)
        \/ Reject \/ SetHeader \/ SetTimeSource \/ JoinFails
        \/ \E k \in DOMAIN Slotframe : Join(k)
        \/ PendingEvents \/ TschProcess \/ RxProcessPending \/ InputReturns
        \/ TxProcessPending \/ SentReturns \/ Sweep \/ SweepDone
        \/ FlushNbrQueue \/ FlushedReturns \/ FlushDone \/ ResetDone

Users == \/ \E a \in Receivers : SendPacket(a)
         \/ SendEB
         \/ \E a \in Parents : UpdateTimeSource(a) \/ TschAssociate(a)

TschNext == Slot \/ Main \/ Users
TschSpec == TschInit /\ [][TschNext]_vars

TschFairSpec == TschSpec /\ WF_vars(Slot) /\ WF_vars(Main)

----------------------------------------------------------------------------
(* Properties *)

(* While the main thread holds the lock, and changes the list of           *)
(* neighbours, no slot operation is sending: the one that was is waited    *)
(* for, none begins in between, and one that begins later finds nothing to *)
(* send.  (The lock does not keep slots from being run: see the README.)   *)
LockExcludesTx ==
  /\ tsch_locked <=> op.at = "locked"
  /\ tsch_lock_requested <=> op.at = "wait"
  /\ tsch_locked => slot.at # "tx"

(* What the slot operation picked before it yielded is as it was when it   *)
(* goes on: the neighbour is listed, the packet is taken and is the head   *)
(* of its queue, and there is still room for it in the ring of the         *)
(* packets that have left, whatever the main thread has done meanwhile.    *)
SlotKeepsItsPacket ==
  slot.at = "tx" =>
    /\ Listed(slot.n) /\ tx_ringbuf[slot.n] # <<>> /\ Head(tx_ringbuf[slot.n]) = slot.p
    /\ packet[slot.p] # NULL /\ packet[slot.p].addr = slot.n
    /\ ~DequeuedFull

(* A packet is in exactly one place from tsch_queue_add_packet until it is *)
(* freed: in the queue of its receiver, in the ring of packets to report,  *)
(* or in the hands of the flush that reports it.                           *)
Reported == IF main.at = "sweep" THEN 1 ELSE 0   \* the head of dequeued is freed
Places(p) ==
  {at \in Addr \X (1..QueueSize) :
     at[2] <= Len(tx_ringbuf[at[1]]) /\ tx_ringbuf[at[1]][at[2]] = p}
  \cup {<<"dequeued", i>> : i \in {j \in DOMAIN dequeued : j > Reported /\ dequeued[j] = p}}
  \cup (IF main.at = "flushed" /\ main.p = p THEN {<<"flushed", 0>>} ELSE {})
PacketsBalance ==
  \A p \in Packet :
    /\ Cardinality(Places(p)) = IF packet[p] = NULL THEN 0 ELSE 1
    /\ \A a \in Addr : p \in Range(tx_ringbuf[a]) => Listed(a) /\ packet[p].addr = a

(* An EB is read after its place in input_array has been freed: the slot   *)
(* operation does not receive into that place before eb_input returns.     *)
InputNotOverwritten ==
  main.at = "input" /\ slot.at \in {"rx", "ack"} => main.index # input.put

(* Every packet that the MAC has accepted is answered by one callback, in  *)
(* the order in which the packets to its receiver were sent, whether it is *)
(* acknowledged, given up or flushed: TSCH implements MacService.          *)
Letter == [seqno: Packet, ack: {FALSE}]
LetterOf(p) == [seqno |-> p, ack |-> FALSE]
Letters(s) == [i \in DOMAIN s |-> LetterOf(s[i])]
\* Those elements of s that are in S: SelectSeq, by a function that can be reasoned about.
Only(s, S) ==
  LET kept[n \in 0..Len(s)] == IF n = 0 THEN <<>>
                               ELSE IF s[n] \in S THEN Append(kept[n - 1], s[n])
                               ELSE kept[n - 1]
  IN kept[Len(s)]
PacketsTo(a) == {p \in Packet : packet[p] # NULL /\ packet[p].addr = a}
Unanswered == IF main.at \in {"sent", "sweep"} THEN Tail(dequeued) ELSE dequeued
AcceptedFor(a) == Only(Unanswered, PacketsTo(a)) \o tx_ringbuf[a]
Pending == [a \in Addr |-> Letters(AcceptedFor(a))]
Answering ==
  CASE main.at = "sent" -> [packet |-> LetterOf(main.p), status |-> packet[main.p].ret]
    [] main.at = "flushed" -> [packet |-> LetterOf(main.p), status |-> "ERR"]
    [] OTHER -> Idle

Service == INSTANCE MacService WITH Nobody <- Idle, pending <- Pending,
                                    answering <- Answering
ImplementsMacService == Service!Spec

(* The wait for the lock ends: the slot that runs comes to its end and no  *)
(* other one begins.                                                       *)
LockGranted == op.at = "wait" ~> op.at = "locked"

(* When nobody calls the MAC any more, and no frames come in faster than   *)
(* they are processed, all that the MAC has accepted is answered: no queue *)
(* is left in a backoff that nothing counts down, or behind a ring that    *)
(* nobody empties.                                                         *)
AllAnswered ==
  <>[][~Users /\ ~RxFrame]_vars => <>[](\A p \in Packet : packet[p] = NULL)

=============================================================================
