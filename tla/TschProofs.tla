----------------------------- MODULE TschProofs -----------------------------
(***************************************************************************)
(* Theorems about TSCH, for every slotframe, every set of addresses and    *)
(* packets and every size of the rings.                                    *)
(***************************************************************************)
EXTENDS Tsch, ListLemmas

\* The main thread's call has a place, which is where the lock follows it.
LockInv == LockExcludesTx /\ "at" \in DOMAIN op

LEMMA InitLock == TschInit => LockInv
BY DEF TschInit, LockInv, LockExcludesTx, Idle, Off

\* A slot operation that sees the lock finds no packet to send.
LEMMA LockedFindsNothing ==
  ASSUME tsch_locked, NEW l
  PROVE  NbrForLink(l) = NULL
<1>1. \A a : PacketForNbr(a, l) = NULL
  BY DEF PacketForNbr
<1>2. ForAny(l) = {}
  BY <1>1 DEF ForAny
<1>3. QED
  BY <1>1, <1>2 DEF NbrForLink

LEMMA CallLock ==
  ASSUME LockInv, NEW do, NEW a, Call(do, a)
  PROVE  LockInv'
BY DEF LockInv, LockExcludesTx, Call, Idle, lockvars, slotvars

\* The steps of the main thread outside of the lock, and those of its calls that
\* need no lock.
LEMMA MainLock ==
  ASSUME LockInv, Main
  PROVE  LockInv'
<1> USE DEF LockInv, LockExcludesTx
<1>1. CASE RequestLock
  BY <1>1 DEF RequestLock, slotvars
<1>2. CASE TakeLock
  BY <1>2 DEF TakeLock, SlotIsOver, tsch_in_slot_operation, slotvars
<1>3. CASE AddNbr
  BY <1>3 DEF AddNbr, Unlock, slotvars
<1>4. CASE RemoveNbr
  BY <1>4 DEF RemoveNbr, Unlock, slotvars, Idle
<1>5. CASE \E p \in Packet : Accept(p)
  BY <1>5 DEF Accept, lockvars, slotvars
<1>6. CASE Reject \/ SetHeader \/ SetTimeSource \/ JoinFails
  BY <1>6 DEF Reject, SetHeader, SetTimeSource, JoinFails, lockvars, slotvars, Idle
<1>7. CASE \E k \in DOMAIN Slotframe : Join(k)
  BY <1>7 DEF Join, lockvars, Idle, Armed
<1>8. CASE Sweep
  BY <1>8, CallLock DEF Sweep, lockvars, slotvars
<1>9. CASE \/ PendingEvents \/ TschProcess \/ RxProcessPending \/ InputReturns
           \/ TxProcessPending \/ SentReturns \/ SweepDone
           \/ FlushNbrQueue \/ FlushedReturns \/ FlushDone \/ ResetDone
  <2>1. UNCHANGED <<op, slot, tsch_locked, tsch_lock_requested>>
    BY <1>9 DEF MainStep, lockvars, PendingEvents, TschProcess, RxProcessPending,
         InputReturns, TxProcessPending, SentReturns, SweepDone, FlushNbrQueue,
         FlushedReturns, FlushDone, ResetDone
  <2>2. QED BY <2>1
<1>10. QED
  BY <1>1, <1>2, <1>3, <1>4, <1>5, <1>6, <1>7, <1>8, <1>9 DEF Main

LEMMA SlotLock ==
  ASSUME LockInv, Slot
  PROVE  LockInv'
<1> USE DEF LockInv, LockExcludesTx
<1>1. UNCHANGED <<op, tsch_locked, tsch_lock_requested>>
  BY DEF Slot, SkipSlot, IdleSlot, StartTx, StartRx, RxFrame, RxEnd, TxEnd, SlotStep, lockvars
<1>2. CASE StartTx
  <2>1. ~tsch_locked
    BY <1>2, LockedFindsNothing DEF StartTx
  <2>2. QED BY <1>1, <2>1
<1>3. CASE StartRx \/ RxFrame
  BY <1>1, <1>3 DEF StartRx, RxFrame
<1>4. CASE SkipSlot \/ IdleSlot \/ RxEnd \/ \E status \in Status : TxEnd(status)
  <2>1. slot' \in {Armed, Off}
    BY <1>4 DEF SkipSlot, IdleSlot, RxEnd, TxEnd, EndSlot, NextSlot, LoseSync
  <2>2. QED BY <1>1, <2>1 DEF Armed, Off
<1>5. QED BY <1>2, <1>3, <1>4 DEF Slot

LEMMA UsersLock ==
  ASSUME LockInv, Users
  PROVE  LockInv'
BY CallLock DEF Users, SendPacket, SendEB, UpdateTimeSource, TschAssociate

(* The lock of tsch-slot-operation.c excludes what it is taken for: while  *)
(* the main thread holds it, and changes the list of neighbours, the slot  *)
(* operation holds no packet and no neighbour to send to.                  *)
THEOREM LockExcludes == TschSpec => []LockExcludesTx
<1>1. TschInit => LockInv
  BY InitLock
<1>2. LockInv /\ [TschNext]_vars => LockInv'
  <2>1. ASSUME LockInv, UNCHANGED vars PROVE LockInv'
    BY <2>1 DEF LockInv, LockExcludesTx, vars, lockvars, slotvars
  <2>2. QED BY <2>1, MainLock, SlotLock, UsersLock DEF TschNext
<1>3. LockInv => LockExcludesTx
  BY DEF LockInv
<1>4. QED BY <1>1, <1>2, <1>3, PTL DEF TschSpec

----------------------------------------------------------------------------
(* The place of a received EB, which is freed before it is read *)

\* The place that eb_input reads is the one before input.get, so that the slot
\* operation would have to fill the whole ring to reach it.
InputInv ==
  /\ input \in [put: 0..(InputSize - 1), get: 0..(InputSize - 1)]
  /\ {"at", "index"} \subseteq DOMAIN main \/ main = Idle
  /\ main.at = "input" =>
       \/ main.index = NULL
       \/ main.index \in 0..(InputSize - 1) /\ input.get = (main.index + 1) % InputSize
  /\ InputNotOverwritten

LEMMA NextIndex ==
  ASSUME NEW n \in Nat \ {0, 1}, NEW i \in 0..(n - 1)
  PROVE  /\ (i + 1) % n = IF i = n - 1 THEN 0 ELSE i + 1
         /\ (i + 1) % n \in 0..(n - 1)
OBVIOUS

LEMMA InitInput == TschInit => InputInv
BY TschAssumption DEF TschInit, InputInv, InputNotOverwritten, Idle, Off

LEMMA SlotInput ==
  ASSUME InputInv, Slot
  PROVE  InputInv'
<1> USE DEF InputInv, InputNotOverwritten
<1>1. main' = main
  BY DEF Slot, SkipSlot, IdleSlot, StartTx, StartRx, RxFrame, RxEnd, TxEnd, SlotStep
<1>2. CASE SkipSlot \/ IdleSlot \/ StartTx \/ \E status \in Status : TxEnd(status)
  <2>1. slot'.at \notin {"rx", "ack"}
    <3>1. CASE StartTx
      BY <3>1 DEF StartTx
    <3>2. CASE SkipSlot \/ IdleSlot \/ \E status \in Status : TxEnd(status)
      <4>1. slot' \in {Armed, Off}
        BY <3>2 DEF SkipSlot, IdleSlot, TxEnd, EndSlot, NextSlot, LoseSync
      <4>2. QED BY <4>1 DEF Armed, Off
    <3>3. QED BY <1>2, <3>1, <3>2
  <2>2. input' = input
    BY <1>2 DEF SkipSlot, IdleSlot, StartTx, TxEnd, ringvars
  <2>3. QED BY <1>1, <2>1, <2>2
<1>3. CASE StartRx
  <2>1. input' = input /\ (input.put + 1) % InputSize # input.get
    BY <1>3 DEF StartRx, InputFull, ringvars
  <2>2. main.at = "input" => main.index # input.put
    BY <2>1, TschAssumption
  <2>3. QED BY <1>1, <2>1, <2>2
<1>4. CASE RxFrame
  BY <1>1, <1>4 DEF RxFrame, ringvars
<1>5. CASE RxEnd
  <2>1. slot'.at \notin {"rx", "ack"}
    BY <1>5 DEF RxEnd, EndSlot, NextSlot, LoseSync, Armed, Off
  <2>2. input' \in [put: 0..(InputSize - 1), get: 0..(InputSize - 1)] /\ input'.get = input.get
    BY <1>5, NextIndex, TschAssumption DEF RxEnd
  <2>3. QED BY <1>1, <2>1, <2>2
<1>6. QED BY <1>2, <1>3, <1>4, <1>5 DEF Slot

LEMMA RxProcessInput ==
  ASSUME InputInv, RxProcessPending
  PROVE  InputInv'
<1> USE DEF InputInv, InputNotOverwritten
<1>1. slot' = slot /\ main # Idle
  BY DEF RxProcessPending, MainStep, Idle
<1>2. CASE input.get = input.put
  BY <1>1, <1>2 DEF RxProcessPending
<1>3. CASE input.get # input.put
  <2>1. PICK i \in {NULL, input.get} : main' = [main EXCEPT !.at = "input", !.index = i]
    BY <1>3 DEF RxProcessPending
  <2>2. input' = [input EXCEPT !.get = (@ + 1) % InputSize]
    BY <1>3 DEF RxProcessPending
  <2>3. main'.index = i /\ {"at", "index"} \subseteq DOMAIN main'
    BY <1>1, <2>1
  <2>4. /\ input' \in [put: 0..(InputSize - 1), get: 0..(InputSize - 1)]
        /\ input'.put = input.put /\ input'.get = (input.get + 1) % InputSize
    BY <2>2, NextIndex, TschAssumption
  <2>5. i # input.put
    BY <1>3, TschAssumption
  <2>6. QED BY <2>3, <2>4, <2>5
<1>4. QED BY <1>2, <1>3

\* What the main thread does elsewhere neither reads nor frees a place.
LEMMA MainInput ==
  ASSUME InputInv, Main, ~RxProcessPending
  PROVE  InputInv'
<1> USE DEF InputInv, InputNotOverwritten
<1>1. input' = input /\ (slot' = slot \/ slot' = Armed)
  BY DEF Main, RequestLock, TakeLock, AddNbr, RemoveNbr, Accept, Reject, SetHeader,
     SetTimeSource, JoinFails, Join, PendingEvents, TschProcess, InputReturns,
     TxProcessPending, SentReturns, Sweep, Call, SweepDone, FlushNbrQueue, FlushedReturns,
     FlushDone, ResetDone, MainStep, ringvars, slotvars
<1>2. CASE main' = main
  BY <1>1, <1>2 DEF Armed
<1>3. CASE main' # main
  <2>1. CASE PendingEvents \/ TschProcess \/ ResetDone
    <3>1. main' \in {Process(TRUE), Process(FALSE), Idle}
      BY <2>1 DEF PendingEvents, TschProcess, ResetDone
    <3>2. main'.at # "input" /\ ({"at", "index"} \subseteq DOMAIN main' \/ main' = Idle)
      BY <3>1 DEF Process, Idle
    <3>3. QED BY <1>1, <3>2
  <2>2. CASE \/ InputReturns \/ TxProcessPending \/ SentReturns \/ Sweep \/ SweepDone
             \/ FlushNbrQueue \/ FlushedReturns \/ FlushDone
    <3>1. main.at # "idle"
      BY <2>2 DEF InputReturns, TxProcessPending, SentReturns, Sweep, SweepDone,
         FlushNbrQueue, FlushedReturns, FlushDone
    <3>2. {"at", "index"} \subseteq DOMAIN main
      <4>1. Idle.at = "idle"
        BY DEF Idle
      <4>2. QED BY <3>1, <4>1
    <3>3. main'.at # "input" /\ ({"at", "index"} \subseteq DOMAIN main' \/ main' = Idle)
      <4>1. CASE InputReturns
        BY <3>2, <4>1 DEF InputReturns
      <4>2. CASE TxProcessPending
        BY <3>2, <4>2 DEF TxProcessPending, Idle
      <4>3. CASE SentReturns \/ SweepDone \/ FlushedReturns \/ FlushDone
        BY <3>2, <4>3 DEF SentReturns, SweepDone, FlushedReturns, FlushDone
      <4>4. CASE Sweep
        BY <3>2, <4>4 DEF Sweep
      <4>5. CASE FlushNbrQueue
        BY <3>2, <4>5 DEF FlushNbrQueue
      <4>6. QED BY <2>2, <4>1, <4>2, <4>3, <4>4, <4>5
    <3>4. QED BY <1>1, <3>3 DEF Armed
  <2>3. QED
    BY <1>3, <2>1, <2>2 DEF Main, RequestLock, TakeLock, AddNbr, RemoveNbr, Accept, Reject,
       SetHeader, SetTimeSource, JoinFails, Join
<1>4. QED BY <1>2, <1>3

LEMMA UsersInput ==
  ASSUME InputInv, Users
  PROVE  InputInv'
<1>1. input' = input /\ main' = main /\ slot' = slot
  BY DEF Users, SendPacket, SendEB, UpdateTimeSource, TschAssociate, Call, ringvars, slotvars
<1>2. QED BY <1>1 DEF InputInv, InputNotOverwritten

(* An EB that eb_input still reads is not received over, although          *)
(* tsch_rx_process_pending has given its place back.                       *)
THEOREM InputIsKept == TschSpec => []InputNotOverwritten
<1>1. TschInit => InputInv
  BY InitInput
<1>2. InputInv /\ [TschNext]_vars => InputInv'
  <2>1. ASSUME InputInv, UNCHANGED vars PROVE InputInv'
    BY <2>1 DEF InputInv, InputNotOverwritten, vars, ringvars, slotvars
  <2>2. QED BY <2>1, SlotInput, RxProcessInput, MainInput, UsersInput DEF TschNext
<1>3. InputInv => InputNotOverwritten
  BY DEF InputInv
<1>4. QED BY <1>1, <1>2, <1>3, PTL DEF TschSpec

----------------------------------------------------------------------------
(* Where packets are *)

Busy == [at: {"rx", "input", "tx", "sent", "sweep", "flush", "flushed", "last sweep"},
         reset: BOOLEAN, todo: Seq(Addr), p: Packet \cup {NULL}, index: 0..(InputSize - 1) \cup {NULL}]
Shapes ==
  /\ neighbor_list \in Seq(Addr)
  /\ tx_ringbuf \in [Addr -> Seq(Packet)]
  /\ \A a \in Addr : Len(tx_ringbuf[a]) < QueueSize
  /\ packet \in [Packet -> Contents \cup {NULL}]
  /\ dequeued \in Seq(Packet) /\ Len(dequeued) < DequeuedSize
  /\ slot \in {Off, Armed, [at |-> "rx"], [at |-> "ack"]} \cup [at: {"tx"}, n: Addr, p: Packet]
  /\ op \in {Idle} \cup [at: {"lock", "wait", "locked", "queue"}, job: Job]
            \cup [at: {"header"}, p: Packet]
  /\ main \in {Idle} \cup Busy

\* A reset goes on only while the node is out of the network, and the neighbour
\* that is to be removed gets no packet.
Positions ==
  /\ main.at \in {"flush", "flushed", "last sweep"} => main.reset
  /\ main # Idle /\ main.reset => ~tsch_is_associated
  /\ op.at \in {"lock", "wait", "locked", "queue"} =>
       /\ op.job.do = "join" => main = Idle
       /\ op.job.do = "remove" => tx_ringbuf[op.job.addr] = <<>>
  /\ slot.at = "tx" => tsch_is_associated
  /\ main.at \in {"sent", "sweep"} => dequeued # <<>>
  /\ main.at = "sent" => main.p = Head(dequeued)
  /\ main.at = "flushed" => main.p \in Packet

\* What has left its queue and is not yet freed.
Unreported == IF main.at = "sweep" THEN Tail(dequeued) ELSE dequeued
Flushing == IF main.at = "flushed" THEN {main.p} ELSE {}
Queued(a) == Range(tx_ringbuf[a])

Apart ==
  /\ \A a \in Addr : Distinct(tx_ringbuf[a])
  /\ Distinct(Unreported)
  /\ Range(Unreported) \cap Flushing = {}
  /\ \A a \in Addr : Queued(a) \cap (Range(Unreported) \cup Flushing) = {}
TakenArePlaced ==
  /\ \A a \in Addr : \A p \in Queued(a) : packet[p] # NULL /\ packet[p].addr = a
  /\ \A p \in Range(Unreported) \cup Flushing : packet[p] # NULL
  /\ \A p \in Packet : packet[p] # NULL =>
       p \in Queued(packet[p].addr) \cup Range(Unreported) \cup Flushing
QueuesAreListed == \A a \in Addr : tx_ringbuf[a] # <<>> => Listed(a)

PacketInv == /\ Shapes /\ Positions /\ Apart /\ TakenArePlaced /\ QueuesAreListed
             /\ SlotKeepsItsPacket

LEMMA ListedIsInRange == \A a : Listed(a) <=> a \in Range(neighbor_list)
BY DEF Listed, Range

\* What the slot operation chooses is the head of the queue of a listed neighbour.
LEMMA ChosenIsQueued ==
  ASSUME Shapes, NEW l, NbrForLink(l) # NULL
  PROVE  LET n == NbrForLink(l) IN
         n \in Addr /\ Listed(n) /\ tx_ringbuf[n] # <<>>
<1>1. ASSUME NEW a, PacketForNbr(a, l) # NULL
      PROVE  a \in Addr /\ Listed(a) /\ tx_ringbuf[a] # <<>>
  <2>1. Listed(a) /\ tx_ringbuf[a] # <<>>
    BY <1>1 DEF PacketForNbr
  <2>2. QED BY <2>1 DEF Listed, Shapes
<1> DEFINE I == ForAny(l)
<1>2. CASE I # {}
  <2>1. I \subseteq Nat
    BY DEF ForAny, Shapes
  <2> DEFINE k == CHOOSE i \in I : \A j \in I : i <= j
  <2>2. k \in I
    <3>1. \E i \in I : \A j \in I : i <= j
      BY <1>2, <2>1, NatMinimum
    <3>2. QED BY <3>1, Zenon
  <2>3. PacketForNbr(neighbor_list[k], l) # NULL
    BY <2>2 DEF ForAny
  <2>4. NbrForLink(l) \in {NULL, EB, l.addr, neighbor_list[k]}
        /\ PacketForNbr(NbrForLink(l), l) # NULL
    BY <2>3, TschAssumption DEF NbrForLink, Addr
  <2>5. QED BY <1>1, <2>4
<1>3. CASE I = {}
  <2>1. PacketForNbr(NbrForLink(l), l) # NULL
    BY <1>3 DEF NbrForLink
  <2>2. QED BY <1>1, <2>1
<1>4. QED BY <1>2, <1>3

----------------------------------------------------------------------------

LEMMA InitPackets == TschInit => PacketInv
<1> SUFFICES ASSUME TschInit PROVE PacketInv
  OBVIOUS
<1>1. neighbor_list \in Seq(Addr)
  <2> DEFINE U == {a \in Unicast : TxLinksCount(a) > 0}
  <2>1. PICK s \in SetToSeqs(U) : neighbor_list = <<EB, BC>> \o s
    BY DEF TschInit
  <2>2. Cardinality(U) \in Nat
    BY FS_Subset, FS_CardinalityType, TschAssumption
  <2>3. s \in [1 .. Cardinality(U) -> U]
    BY DEF SetToSeqs
  <2>4. s \in Seq(Addr)
    BY <2>2, <2>3 DEF Addr
  <2>5. <<EB, BC>> \in Seq(Addr)
    BY DEF Addr
  <2>6. QED BY <2>1, <2>4, <2>5
<1>2. \A a \in Addr : tx_ringbuf[a] = <<>> /\ Queued(a) = {}
  BY DEF TschInit, Queued, Range
<1>3. Unreported = <<>> /\ Flushing = {} /\ dequeued = <<>>
  BY DEF TschInit, Unreported, Flushing, Idle
<1>4. Shapes
  BY <1>1, <1>2, <1>3, TschAssumption DEF Shapes, TschInit
<1>5. Positions
  BY DEF Positions, TschInit, Idle, Off
<1>6. Apart
  BY <1>2, <1>3 DEF Apart, Distinct, Range
<1>7. TakenArePlaced
  BY <1>2, <1>3 DEF TakenArePlaced, Range, TschInit
<1>8. QueuesAreListed /\ SlotKeepsItsPacket
  BY <1>2 DEF QueuesAreListed, SlotKeepsItsPacket, TschInit, Off
<1>9. QED BY <1>4, <1>5, <1>6, <1>7, <1>8 DEF PacketInv

\* The shapes of the main thread's places.
LEMMA OpShape ==
  ASSUME Shapes
  PROVE  /\ op.at \in {"lock", "wait", "locked", "queue"} =>
              op \in [at: {"lock", "wait", "locked", "queue"}, job: Job]
         /\ op # Idle => "at" \in DOMAIN op
BY DEF Shapes, Idle

LEMMA MainShape ==
  ASSUME Shapes, main.at # "idle"
  PROVE  main \in Busy /\ main # Idle
BY DEF Shapes, Idle

LEMMA SlotShape ==
  ASSUME Shapes, slot.at = "tx"
  PROVE  slot \in [at: {"tx"}, n: Addr, p: Packet]
BY DEF Shapes, Off, Armed

\* Steps that move no packet.
LEMMA Unmoved ==
  ASSUME PacketInv, UNCHANGED <<tx_ringbuf, packet, dequeued>>,
         Unreported' = Unreported, Flushing' = Flushing,
         \A a \in Addr : tx_ringbuf[a] # <<>> /\ Listed(a) => Listed(a)',
         slot'.at = "tx" => slot' = slot
  PROVE  Apart' /\ TakenArePlaced' /\ QueuesAreListed' /\ SlotKeepsItsPacket'
<1>1. Apart'
  BY DEF PacketInv, Apart, Queued
<1>2. TakenArePlaced'
  BY DEF PacketInv, TakenArePlaced, Queued
<1>3. QueuesAreListed'
  BY DEF PacketInv, QueuesAreListed
<1>4. SlotKeepsItsPacket'
  <2>1. ASSUME slot'.at = "tx" PROVE slot.n \in Addr
    BY <2>1, SlotShape DEF PacketInv
  <2>2. QED BY <2>1 DEF PacketInv, SlotKeepsItsPacket, DequeuedFull
<1>5. QED BY <1>1, <1>2, <1>3, <1>4

LEMMA MainStays ==
  ASSUME PacketInv, UNCHANGED <<tx_ringbuf, packet, dequeued, main, slot, tsch_is_associated>>,
         Shapes',
         op'.at \in {"lock", "wait", "locked", "queue"} =>
           /\ op'.job.do = "join" => main = Idle
           /\ op'.job.do = "remove" => tx_ringbuf[op'.job.addr] = <<>>,
         \A a \in Addr : tx_ringbuf[a] # <<>> /\ Listed(a) => Listed(a)'
  PROVE  PacketInv'
<1>1. Unreported' = Unreported /\ Flushing' = Flushing
  BY DEF Unreported, Flushing
<1>2. Apart' /\ TakenArePlaced' /\ QueuesAreListed' /\ SlotKeepsItsPacket'
  BY <1>1, Unmoved
<1>3. Positions'
  BY DEF PacketInv, Positions
<1>4. QED BY <1>2, <1>3 DEF PacketInv

\* The beginning of a call that does not come from the sweep.
LEMMA CallPackets ==
  ASSUME PacketInv, UNCHANGED main, NEW do \in {"send", "source", "join"}, NEW a \in Addr,
         Call(do, a), do = "join" => main = Idle
  PROVE  PacketInv'
<1>1. UNCHANGED <<tx_ringbuf, packet, dequeued, main, slot, tsch_is_associated, neighbor_list>>
  BY DEF Call, nbrvars, ringvars, slotvars
<1>2. op' = [at |-> IF Listed(a) THEN "queue" ELSE "lock", job |-> [do |-> do, addr |-> a]]
  BY DEF Call
<1>3. op' \in [at: {"lock", "wait", "locked", "queue"}, job: Job]
  BY <1>2 DEF Job
<1>4. Shapes'
  BY <1>1, <1>3 DEF PacketInv, Shapes
<1>5. \A b : Listed(b)' <=> Listed(b)
  BY <1>1 DEF Listed
<1>6. QED BY <1>1, <1>2, <1>4, <1>5, MainStays

LEMMA UsersPackets ==
  ASSUME PacketInv, Users
  PROVE  PacketInv'
<1>1. CASE \E a \in Receivers : SendPacket(a)
  BY <1>1, CallPackets, TschAssumption DEF SendPacket, Addr
<1>2. CASE SendEB
  BY <1>2, CallPackets DEF SendEB, Addr
<1>3. CASE \E a \in Parents : UpdateTimeSource(a)
  BY <1>3, CallPackets, TschAssumption DEF UpdateTimeSource, Addr
<1>4. CASE \E a \in Parents : TschAssociate(a)
  BY <1>4, CallPackets, TschAssumption DEF TschAssociate, Addr
<1>5. QED BY <1>1, <1>2, <1>3, <1>4 DEF Users

\* The lock is taken, the list of neighbours changed.
LEMMA LockPackets ==
  ASSUME PacketInv, RequestLock \/ TakeLock \/ AddNbr \/ RemoveNbr
  PROVE  PacketInv'
<1>1. UNCHANGED <<tx_ringbuf, packet, dequeued, main, slot, tsch_is_associated>>
  BY DEF RequestLock, TakeLock, AddNbr, RemoveNbr, nbrvars, ringvars, slotvars
<1>2. op \in [at: {"lock", "wait", "locked", "queue"}, job: Job]
  BY OpShape DEF PacketInv, RequestLock, TakeLock, AddNbr, RemoveNbr
<1>3. op.job.addr \in Addr
  BY <1>2 DEF Job
<1>4. /\ op' = Idle \/ op' \in [at: {"lock", "wait", "locked", "queue"}, job: Job]
      /\ op' # Idle => op'.job = op.job
  BY <1>2 DEF RequestLock, TakeLock, AddNbr, RemoveNbr
<1>5. /\ neighbor_list' \in Seq(Addr)
      /\ \A a \in Addr : tx_ringbuf[a] # <<>> /\ Listed(a) => Listed(a)'
  <2>1. CASE RequestLock \/ TakeLock
    BY <2>1 DEF RequestLock, TakeLock, nbrvars, PacketInv, Shapes, Listed
  <2>2. CASE AddNbr
    <3>1. CASE neighbor_list' = neighbor_list
      BY <3>1 DEF PacketInv, Shapes, Listed
    <3>2. CASE neighbor_list' = Append(neighbor_list, op.job.addr)
      <4>1. neighbor_list \in Seq(Addr)
        BY DEF PacketInv, Shapes
      <4>2. /\ neighbor_list' \in Seq(Addr) /\ DOMAIN neighbor_list \subseteq DOMAIN neighbor_list'
            /\ \A i \in DOMAIN neighbor_list : neighbor_list'[i] = neighbor_list[i]
        BY <1>3, <3>2, <4>1, AppendProperties
      <4>3. QED BY <4>2 DEF Listed
    <3>3. QED BY <2>2, <3>1, <3>2 DEF AddNbr
  <2>3. CASE RemoveNbr
    <3>1. /\ neighbor_list' = RemoveFirst(neighbor_list, op.job.addr)
          /\ tx_ringbuf[op.job.addr] = <<>>
      BY <2>3 DEF RemoveNbr, PacketInv, Positions
    <3>2. /\ neighbor_list' \in Seq(Addr)
          /\ Range(neighbor_list) \ {op.job.addr} \subseteq Range(neighbor_list')
      BY <3>1, OthersStay DEF PacketInv, Shapes
    <3>3. \A a : Listed(a)' <=> a \in Range(neighbor_list')
      BY DEF Listed, Range
    <3>4. QED BY <3>1, <3>2, <3>3, ListedIsInRange
  <2>4. QED BY <2>1, <2>2, <2>3
<1>6. Shapes'
  BY <1>1, <1>4, <1>5 DEF PacketInv, Shapes
<1>7. op'.at \in {"lock", "wait", "locked", "queue"} => op' # Idle
  BY DEF Idle
<1>8. /\ op.job.do = "join" => main = Idle
      /\ op.job.do = "remove" => tx_ringbuf[op.job.addr] = <<>>
  BY <1>2 DEF PacketInv, Positions
<1>9. QED BY <1>1, <1>4, <1>5, <1>6, <1>7, <1>8, MainStays

\* The end of a call, without a packet.
LEMMA ReturnPackets ==
  ASSUME PacketInv, Reject \/ SetHeader \/ SetTimeSource \/ JoinFails
  PROVE  PacketInv'
<1>1. UNCHANGED <<tx_ringbuf, packet, dequeued, main, slot, tsch_is_associated, neighbor_list>>
  BY DEF Reject, SetHeader, SetTimeSource, JoinFails, nbrvars, ringvars, slotvars
<1>2. op' = Idle
  BY DEF Reject, SetHeader, SetTimeSource, JoinFails
<1>3. Shapes'
  BY <1>1, <1>2 DEF PacketInv, Shapes
<1>4. op'.at \notin {"lock", "wait", "locked", "queue"}
  BY <1>2 DEF Idle
<1>5. \A a : Listed(a)' <=> Listed(a)
  BY <1>1 DEF Listed
<1>6. QED BY <1>1, <1>3, <1>4, <1>5, MainStays

LEMMA JoinPackets ==
  ASSUME PacketInv, NEW k, Join(k)
  PROVE  PacketInv'
<1>1. UNCHANGED <<tx_ringbuf, packet, dequeued, main, neighbor_list>>
  BY DEF Join, ringvars
<1>2. op' = Idle /\ main = Idle /\ tsch_is_associated' = TRUE
  BY DEF Join, PacketInv, Positions
<1>3. slot' = slot \/ slot' = Armed
  BY DEF Join
<1>4. Shapes'
  BY <1>1, <1>2, <1>3 DEF PacketInv, Shapes
<1>5. Positions'
  BY <1>1, <1>2, <1>3 DEF PacketInv, Positions, Idle
<1>6. Unreported' = Unreported /\ Flushing' = Flushing /\ \A a : Listed(a)' <=> Listed(a)
  BY <1>1 DEF Unreported, Flushing, Listed
<1>7. slot'.at = "tx" => slot' = slot
  BY <1>3 DEF Armed
<1>8. QED BY <1>1, <1>4, <1>5, <1>6, <1>7, Unmoved DEF PacketInv

\* The loops of the main thread, when they move no packet.
LEMMA WalkStays ==
  ASSUME PacketInv, MainStep, UNCHANGED <<tx_ringbuf, packet, dequeued>>,
         main' \in {Idle} \cup Busy,
         Unreported' = Unreported, Flushing' = Flushing,
         main'.at \in {"flush", "flushed", "last sweep"} => main'.reset,
         main' # Idle /\ main'.reset => ~tsch_is_associated,
         main'.at \in {"sent", "sweep"} => dequeued # <<>>,
         main'.at = "sent" => main'.p = Head(dequeued),
         main'.at = "flushed" => main'.p \in Packet
  PROVE  PacketInv'
<1>1. UNCHANGED <<op, slot, neighbor_list, tsch_is_associated>> /\ op = Idle
  BY DEF MainStep
<1>2. Shapes'
  BY <1>1 DEF PacketInv, Shapes
<1>3. op.at \notin {"lock", "wait", "locked", "queue"}
  BY <1>1 DEF Idle
<1>4. Positions'
  BY <1>1, <1>3 DEF PacketInv, Positions
<1>5. \A a : Listed(a)' <=> Listed(a)
  BY <1>1 DEF Listed
<1>6. QED BY <1>1, <1>2, <1>4, <1>5, Unmoved DEF PacketInv

LEMMA ProcessIsBusy == \A reset \in BOOLEAN : Process(reset) \in Busy
<1>1. <<>> \in Seq(Addr)
  OBVIOUS
<1>2. QED BY <1>1 DEF Process, Busy

LEMMA BeginPackets ==
  ASSUME PacketInv, PendingEvents \/ TschProcess
  PROVE  PacketInv'
<1>1. /\ MainStep /\ UNCHANGED <<tx_ringbuf, packet, dequeued>> /\ main = Idle
      /\ \/ main' = Process(FALSE)
         \/ main' = Process(TRUE) /\ ~tsch_is_associated
  BY DEF PendingEvents, TschProcess, HasLeft, ringvars
<1>2. main' \in Busy /\ main'.at = "rx" /\ (main'.reset => ~tsch_is_associated)
  <2>1. main' \in Busy
    BY <1>1, ProcessIsBusy
  <2>2. main'.at = "rx" /\ (main'.reset => main'.reset = TRUE /\ ~tsch_is_associated)
    BY <1>1 DEF Process
  <2>3. QED BY <2>1, <2>2
<1>3. Unreported' = Unreported /\ Flushing' = Flushing
  BY <1>1, <1>2 DEF Unreported, Flushing, Idle
<1>4. QED BY <1>1, <1>2, <1>3, WalkStays

LEMMA InputPackets ==
  ASSUME PacketInv, InputInv, RxProcessPending \/ InputReturns
  PROVE  PacketInv'
<1>1. MainStep /\ UNCHANGED <<tx_ringbuf, packet, dequeued>> /\ main.at \in {"rx", "input"}
  BY DEF RxProcessPending, InputReturns, ringvars
<1>2. main \in Busy /\ main # Idle
  BY <1>1, MainShape DEF PacketInv
<1>3. input.get \in 0..(InputSize - 1)
  BY TschAssumption DEF InputInv
<1>4. main' \in Busy /\ main'.at \in {"rx", "input", "tx"} /\ main'.reset = main.reset
  <2>1. CASE InputReturns
    BY <1>2, <2>1 DEF InputReturns, Busy
  <2>2. CASE RxProcessPending /\ input.get = input.put
    BY <1>2, <2>2 DEF RxProcessPending, Busy
  <2>3. CASE RxProcessPending /\ input.get # input.put
    BY <1>2, <1>3, <2>3 DEF RxProcessPending, Busy
  <2>4. QED BY <2>1, <2>2, <2>3
<1>5. Unreported' = Unreported /\ Flushing' = Flushing
  BY <1>1, <1>4 DEF Unreported, Flushing
<1>6. main.reset => ~tsch_is_associated
  BY <1>2 DEF PacketInv, Positions
<1>7. QED BY <1>1, <1>4, <1>5, <1>6, WalkStays

LEMMA TxProcessPackets ==
  ASSUME PacketInv, TxProcessPending
  PROVE  PacketInv'
<1>1. MainStep /\ UNCHANGED <<tx_ringbuf, packet, dequeued>> /\ main.at = "tx"
  BY DEF TxProcessPending, ringvars
<1>2. main \in Busy /\ main # Idle
  BY <1>1, MainShape DEF PacketInv
<1>3. main.reset => ~tsch_is_associated
  BY <1>2 DEF PacketInv, Positions
<1>4. dequeued \in Seq(Packet) /\ neighbor_list \in Seq(Addr)
  BY DEF PacketInv, Shapes
<1>5. CASE dequeued # <<>>
  <2>1. Head(dequeued) \in Packet
    BY <1>4, <1>5, HeadTailProperties
  <2>2. main' = [main EXCEPT !.at = "sent", !.p = Head(dequeued)]
    BY <1>5 DEF TxProcessPending
  <2>3. /\ main' \in Busy /\ main'.at = "sent" /\ main'.p = Head(dequeued)
        /\ main'.reset = main.reset
    BY <1>2, <2>1, <2>2 DEF Busy
  <2>4. Unreported' = Unreported /\ Flushing' = Flushing
    BY <1>1, <2>3 DEF Unreported, Flushing
  <2>5. QED BY <1>1, <1>3, <1>5, <2>3, <2>4, WalkStays
<1>6. CASE dequeued = <<>> /\ main.reset
  <2>1. main' = [main EXCEPT !.at = "flush", !.todo = neighbor_list]
    BY <1>6 DEF TxProcessPending
  <2>2. main' \in Busy /\ main'.at = "flush" /\ main'.reset = main.reset
    BY <1>2, <1>4, <2>1 DEF Busy
  <2>3. Unreported' = Unreported /\ Flushing' = Flushing
    BY <1>1, <2>2 DEF Unreported, Flushing
  <2>4. QED BY <1>1, <1>3, <1>6, <2>2, <2>3, WalkStays
<1>7. CASE dequeued = <<>> /\ ~main.reset
  <2>1. main' = Idle
    BY <1>7 DEF TxProcessPending
  <2>2. main'.at = "idle"
    BY <2>1 DEF Idle
  <2>3. Unreported' = Unreported /\ Flushing' = Flushing
    BY <1>1, <2>2 DEF Unreported, Flushing
  <2>4. QED BY <1>1, <2>1, <2>2, <2>3, WalkStays
<1>8. QED BY <1>5, <1>6, <1>7

LEMMA ResetPackets ==
  ASSUME PacketInv, FlushDone \/ ResetDone
  PROVE  PacketInv'
<1>1. /\ MainStep /\ UNCHANGED <<tx_ringbuf, packet, dequeued>>
      /\ main.at \in {"flush", "last sweep"}
  BY DEF FlushDone, ResetDone, ringvars
<1>2. main \in Busy /\ main # Idle
  BY <1>1, MainShape DEF PacketInv
<1>3. main.reset /\ ~tsch_is_associated
  BY <1>1, <1>2 DEF PacketInv, Positions
<1>4. neighbor_list \in Seq(Addr)
  BY DEF PacketInv, Shapes
<1>5. \/ main' = Idle /\ main'.at = "idle"
      \/ main' \in Busy /\ main'.at = "last sweep" /\ main'.reset
  <2>1. CASE FlushDone
    BY <1>2, <1>3, <1>4, <2>1 DEF FlushDone, Busy
  <2>2. CASE ResetDone
    BY <2>2 DEF ResetDone, Idle
  <2>3. QED BY <2>1, <2>2
<1>6. Unreported' = Unreported /\ Flushing' = Flushing
  BY <1>1, <1>5 DEF Unreported, Flushing
<1>7. QED BY <1>1, <1>3, <1>5, <1>6, WalkStays

LEMMA SweepPackets ==
  ASSUME PacketInv, Sweep
  PROVE  PacketInv'
<1> DEFINE a == Head(main.todo)
<1>1. /\ main.at \in {"sweep", "last sweep"} /\ main.todo # <<>> /\ op = Idle
      /\ main' = [main EXCEPT !.todo = Tail(@)]
  BY DEF Sweep
<1>2. main \in Busy /\ main # Idle
  BY <1>1, MainShape DEF PacketInv
<1>3. main.todo \in Seq(Addr)
  BY <1>2 DEF Busy
<1>4. a \in Addr /\ Tail(main.todo) \in Seq(Addr)
  BY <1>1, <1>3, HeadTailProperties
<1>5. main' \in Busy /\ main'.at = main.at /\ main'.reset = main.reset /\ main'.p = main.p
  BY <1>1, <1>2, <1>4 DEF Busy
<1>6. UNCHANGED <<tx_ringbuf, packet, dequeued, slot, neighbor_list, tsch_is_associated>>
  BY DEF Sweep, Call, nbrvars, ringvars, slotvars
<1>7. \/ op' = Idle
      \/ op' = [at |-> "lock", job |-> [do |-> "remove", addr |-> a]] /\ tx_ringbuf[a] = <<>>
  BY <1>1 DEF Sweep, Call, Unused
<1> HIDE DEF a
<1>8. op' = Idle \/ op' \in [at: {"lock", "wait", "locked", "queue"}, job: Job]
  BY <1>4, <1>7 DEF Job
<1>9. Shapes'
  BY <1>5, <1>6, <1>8 DEF PacketInv, Shapes
<1>10. Unreported' = Unreported /\ Flushing' = Flushing
  BY <1>1, <1>5, <1>6 DEF Unreported, Flushing
<1>11. op'.at \in {"lock", "wait", "locked", "queue"} =>
         op'.job.do = "remove" /\ tx_ringbuf[op'.job.addr] = <<>>
  BY <1>7 DEF Idle
<1>12. Positions'
  <2>1. main'.at \in {"flush", "flushed", "last sweep"} => main'.reset
    BY <1>5 DEF PacketInv, Positions
  <2>2. main'.reset => ~tsch_is_associated'
    BY <1>2, <1>5, <1>6 DEF PacketInv, Positions
  <2>3. main'.at \in {"sent", "sweep"} => dequeued' # <<>>
    BY <1>5, <1>6 DEF PacketInv, Positions
  <2>4. main'.at # "sent" /\ main'.at # "flushed"
    BY <1>1, <1>5
  <2>5. slot'.at = "tx" => tsch_is_associated'
    BY <1>6 DEF PacketInv, Positions
  <2>6. QED BY <1>6, <1>11, <2>1, <2>2, <2>3, <2>4, <2>5 DEF Positions
<1>13. \A b : Listed(b)' <=> Listed(b)
  BY <1>6 DEF Listed
<1>14. QED BY <1>6, <1>9, <1>10, <1>12, <1>13, Unmoved DEF PacketInv

\* The slot operation, when it sends nothing.
LEMMA SlotPackets ==
  ASSUME PacketInv, SkipSlot \/ IdleSlot \/ StartRx \/ RxFrame \/ RxEnd
  PROVE  PacketInv'
<1>1. UNCHANGED <<tx_ringbuf, packet, dequeued, main, op, neighbor_list>>
  BY DEF SkipSlot, IdleSlot, StartRx, RxFrame, RxEnd, SlotStep, ringvars
<1>2. slot' \in {Off, Armed, [at |-> "rx"], [at |-> "ack"]}
  BY DEF SkipSlot, IdleSlot, StartRx, RxFrame, RxEnd, EndSlot, NextSlot, LoseSync
<1>3. tsch_is_associated' => tsch_is_associated
  BY Zenon DEF SkipSlot, IdleSlot, StartRx, RxFrame, RxEnd, EndSlot, NextSlot, LoseSync
<1>4. slot'.at # "tx"
  BY <1>2 DEF Off, Armed
<1>5. Shapes'
  BY <1>1, <1>2 DEF PacketInv, Shapes
<1>6. Positions'
  BY <1>1, <1>3, <1>4 DEF PacketInv, Positions
<1>7. Unreported' = Unreported /\ Flushing' = Flushing /\ \A a : Listed(a)' <=> Listed(a)
  BY <1>1 DEF Unreported, Flushing, Listed
<1>8. QED BY <1>1, <1>4, <1>5, <1>6, <1>7, Unmoved DEF PacketInv

\* It takes the head of a queue.
LEMMA StartTxPackets ==
  ASSUME PacketInv, StartTx
  PROVE  PacketInv'
<1>1. UNCHANGED <<tx_ringbuf, packet, dequeued, main, op, neighbor_list, tsch_is_associated>>
  BY DEF StartTx, SlotStep, ringvars
<1> DEFINE n == NbrForLink(LinkOfSlot)
           p == Head(tx_ringbuf[n])
<1>2. n \in Addr /\ Listed(n) /\ tx_ringbuf[n] # <<>>
  BY ChosenIsQueued DEF StartTx, PacketInv
<1>3. slot' = [at |-> "tx", n |-> n, p |-> p] /\ tsch_is_associated /\ ~DequeuedFull
  BY DEF StartTx, Runs, RunsAnyway, SlotMayRun
<1> HIDE DEF n
<1>4. p \in Packet /\ p \in Queued(n)
  <2>1. tx_ringbuf[n] \in Seq(Packet) /\ Distinct(tx_ringbuf[n])
    BY <1>2 DEF PacketInv, Shapes, Apart
  <2>2. QED BY <1>2, <2>1, HeadLeaves DEF Queued
<1>5. packet[p] # NULL /\ packet[p].addr = n
  BY <1>2, <1>4 DEF PacketInv, TakenArePlaced
<1>6. Shapes'
  BY <1>1, <1>2, <1>3, <1>4 DEF PacketInv, Shapes
<1>7. Positions'
  BY <1>1, <1>3 DEF PacketInv, Positions
<1>8. Unreported' = Unreported /\ Flushing' = Flushing /\ \A a : Listed(a)' <=> Listed(a)
  BY <1>1 DEF Unreported, Flushing, Listed
<1>9. Apart' /\ TakenArePlaced' /\ QueuesAreListed'
  BY <1>1, <1>8 DEF PacketInv, Apart, TakenArePlaced, QueuesAreListed, Queued
<1>10. SlotKeepsItsPacket'
  BY <1>1, <1>2, <1>3, <1>5, <1>8 DEF SlotKeepsItsPacket, DequeuedFull
<1>11. QED BY <1>6, <1>7, <1>9, <1>10 DEF PacketInv

LEMMA QueuedIsPacket ==
  ASSUME Shapes, NEW a \in Addr, NEW p \in Queued(a)
  PROVE  p \in Packet
BY DEF Shapes, Queued, Range

LEMMA UnreportedArePackets ==
  ASSUME Shapes, Positions
  PROVE  Unreported \in Seq(Packet) /\ Range(Unreported) \cup Flushing \subseteq Packet
<1>1. Unreported \in Seq(Packet)
  BY HeadTailProperties DEF Unreported, Shapes, Positions
<1>2. Range(Unreported) \subseteq Packet
  BY <1>1 DEF Range
<1>3. Flushing \subseteq Packet
  BY DEF Flushing, Positions
<1>4. QED BY <1>1, <1>2, <1>3

\* tsch_queue_add_packet puts a free block at the end of a queue.
LEMMA AcceptPackets ==
  ASSUME PacketInv, NEW p \in Packet, Accept(p)
  PROVE  PacketInv'
<1> DEFINE a == op.job.addr
           s == tx_ringbuf[a]
<1>1. /\ UNCHANGED <<dequeued, main, slot, neighbor_list, tsch_is_associated>>
      /\ packet[p] = NULL /\ Listed(a) /\ Len(s) < QueueSize - 1
      /\ packet' = [packet EXCEPT ![p] = [addr |-> a, transmissions |-> 0, ret |-> "ERR"]]
      /\ tx_ringbuf' = [tx_ringbuf EXCEPT ![a] = Append(s, p)]
      /\ op' = [at |-> "header", p |-> p]
  BY DEF Accept, HasRoom, ringvars, slotvars
<1>2. op \in [at: {"lock", "wait", "locked", "queue"}, job: Job]
  BY OpShape DEF PacketInv, Accept
<1>3. a \in Addr
  BY <1>2 DEF Job
<1> HIDE DEF a
<1>4. s \in Seq(Packet) /\ Distinct(s)
  BY <1>3 DEF PacketInv, Shapes, Apart
<1>5. /\ \A b \in Addr : p \notin Queued(b)
      /\ p \notin Range(Unreported) \cup Flushing
  BY <1>1 DEF PacketInv, TakenArePlaced
<1>6. /\ Append(s, p) \in Seq(Packet) /\ Distinct(Append(s, p)) /\ Append(s, p) # <<>>
      /\ s # <<>> => Head(Append(s, p)) = Head(s)
      /\ Range(Append(s, p)) = Range(s) \cup {p}
  BY <1>3, <1>4, <1>5, AppendKeeps DEF Queued
<1>7. Len(Append(s, p)) < QueueSize
  BY <1>1, <1>4, TschAssumption
<1>8. [addr |-> a, transmissions |-> 0, ret |-> "ERR"] \in Contents
  BY <1>3 DEF Contents, Status
<1>9. [addr |-> a, transmissions |-> 0, ret |-> "ERR"] # NULL
  BY <1>1, <1>8, TschAssumption
<1>10. /\ packet' \in [Packet -> Contents \cup {NULL}]
       /\ tx_ringbuf' \in [Addr -> Seq(Packet)]
       /\ \A b \in Addr : tx_ringbuf'[b] = IF b = a THEN Append(s, p) ELSE tx_ringbuf[b]
       /\ packet'[p] # NULL /\ packet'[p].addr = a
       /\ \A q \in Packet \ {p} : packet'[q] = packet[q]
  BY <1>1, <1>3, <1>6, <1>8, <1>9 DEF PacketInv, Shapes
<1>11. /\ Unreported' = Unreported /\ Flushing' = Flushing
       /\ \A b : Listed(b)' <=> Listed(b)
       /\ \A b \in Addr : Queued(b)' = IF b = a THEN Queued(a) \cup {p} ELSE Queued(b)
  BY <1>1, <1>6, <1>10 DEF Unreported, Flushing, Listed, Queued
<1>12. Shapes'
  BY <1>1, <1>7, <1>10 DEF PacketInv, Shapes
<1>13. Positions'
  BY <1>1 DEF PacketInv, Positions
<1>14. Apart'
  <2>1. ASSUME NEW b \in Addr
        PROVE  /\ Distinct(tx_ringbuf'[b])
               /\ Queued(b)' \cap (Range(Unreported) \cup Flushing) = {}
    <3>1. Distinct(tx_ringbuf[b]) /\ Queued(b) \cap (Range(Unreported) \cup Flushing) = {}
      BY DEF PacketInv, Apart
    <3>2. Distinct(tx_ringbuf'[b])
      BY <1>6, <1>10, <3>1
    <3>3. QED BY <1>3, <1>5, <1>11, <3>1, <3>2
  <2>2. Distinct(Unreported) /\ Range(Unreported) \cap Flushing = {}
    BY DEF PacketInv, Apart
  <2>3. QED BY <1>11, <2>1, <2>2 DEF Apart
<1>15. TakenArePlaced'
  <2>1. ASSUME NEW b \in Addr, NEW q \in Queued(b)'
        PROVE  packet'[q] # NULL /\ packet'[q].addr = b
    <3>1. CASE q = p
      BY <1>3, <1>5, <1>10, <1>11, <2>1, <3>1
    <3>2. CASE q # p
      <4>1. q \in Queued(b)
        BY <1>3, <1>11, <2>1, <3>2
      <4>2. q \in Packet
        BY <4>1, QueuedIsPacket DEF PacketInv
      <4>3. QED BY <1>10, <3>2, <4>1, <4>2 DEF PacketInv, TakenArePlaced
    <3>3. QED BY <3>1, <3>2
  <2>2. ASSUME NEW q \in Range(Unreported) \cup Flushing
        PROVE  packet'[q] # NULL
    <3>1. q \in Packet
      BY UnreportedArePackets DEF PacketInv
    <3>2. QED BY <1>5, <1>10, <3>1 DEF PacketInv, TakenArePlaced
  <2>3. ASSUME NEW q \in Packet, packet'[q] # NULL
        PROVE  q \in Queued(packet[q].addr)' \cup Range(Unreported) \cup Flushing
    <3>1. CASE q = p
      BY <1>3, <1>10, <1>11, <3>1
    <3>2. CASE q # p
      <4>1. packet'[q] = packet[q] /\ packet[q].addr \in Addr
        BY <1>10, <2>3, <3>2 DEF PacketInv, Shapes, Contents
      <4>2. q \in Queued(packet[q].addr) \cup Range(Unreported) \cup Flushing
        BY <2>3, <4>1 DEF PacketInv, TakenArePlaced
      <4>3. QED BY <1>11, <4>1, <4>2
    <3>3. QED BY <3>1, <3>2
  <2>4. QED BY <1>11, <2>1, <2>2, <2>3 DEF TakenArePlaced
<1>16. QueuesAreListed'
  BY <1>1, <1>10, <1>11 DEF PacketInv, QueuesAreListed
<1>17. SlotKeepsItsPacket'
  <2>1. CASE slot.at = "tx"
    <3>1. slot.n \in Addr /\ slot.p \in Packet
      BY <2>1, SlotShape DEF PacketInv
    <3>2. slot.p # p
      BY <1>1, <2>1 DEF PacketInv, SlotKeepsItsPacket
    <3>3. QED BY <1>1, <1>6, <1>10, <1>11, <3>1, <3>2
              DEF PacketInv, SlotKeepsItsPacket, DequeuedFull
  <2>2. CASE slot.at # "tx"
    BY <1>1, <2>2 DEF SlotKeepsItsPacket
  <2>3. QED BY <2>1, <2>2
<1>18. QED BY <1>12, <1>13, <1>14, <1>15, <1>16, <1>17 DEF PacketInv

\* A packet that was taken is reported, and its block is free.
LEMMA SentPackets ==
  ASSUME PacketInv, SentReturns
  PROVE  PacketInv'
<1> DEFINE p == main.p
<1>1. /\ UNCHANGED <<op, slot, neighbor_list, tsch_is_associated, tx_ringbuf, dequeued>>
      /\ op = Idle /\ main.at = "sent"
      /\ packet' = [packet EXCEPT ![p] = NULL]
      /\ main' = [main EXCEPT !.at = "sweep", !.p = NULL, !.todo = neighbor_list]
  BY DEF SentReturns, MainStep, ringvars
<1>2. main \in Busy /\ main # Idle
  BY <1>1, MainShape DEF PacketInv
<1>3. /\ main' \in Busy /\ main'.at = "sweep" /\ main'.reset = main.reset
  BY <1>1, <1>2 DEF PacketInv, Shapes, Busy
<1>4. dequeued \in Seq(Packet) /\ dequeued # <<>> /\ p = Head(dequeued)
  BY <1>1 DEF PacketInv, Shapes, Positions
<1>5. Unreported = dequeued /\ Flushing = {} /\ Unreported' = Tail(dequeued) /\ Flushing' = {}
  BY <1>1, <1>3 DEF Unreported, Flushing
<1>6. Distinct(dequeued)
  BY <1>5 DEF PacketInv, Apart
<1>7. /\ Distinct(Tail(dequeued)) /\ p \in Packet /\ p \in Range(dequeued)
      /\ Range(Tail(dequeued)) = Range(dequeued) \ {p}
  BY <1>4, <1>6, HeadLeaves
<1> HIDE DEF p
<1>8. /\ packet' \in [Packet -> Contents \cup {NULL}] /\ packet'[p] = NULL
      /\ \A q \in Packet \ {p} : packet'[q] = packet[q]
  BY <1>1, <1>7 DEF PacketInv, Shapes
<1>9. Shapes'
  BY <1>1, <1>3, <1>8 DEF PacketInv, Shapes
<1>10. Positions'
  <2>1. main'.reset => ~tsch_is_associated
    BY <1>2, <1>3 DEF PacketInv, Positions
  <2>2. op.at \notin {"lock", "wait", "locked", "queue"}
    BY <1>1 DEF Idle
  <2>3. QED BY <1>1, <1>3, <1>4, <2>1, <2>2 DEF PacketInv, Positions
<1>11. \A a \in Addr : p \notin Queued(a)
  BY <1>5, <1>7 DEF PacketInv, Apart
<1>12. \A a : Queued(a)' = Queued(a)
  BY <1>1 DEF Queued
<1>13. Apart'
  <2>1. \A a \in Addr : Distinct(tx_ringbuf[a]) /\ Queued(a) \cap Range(dequeued) = {}
    BY <1>5 DEF PacketInv, Apart
  <2>2. QED BY <1>1, <1>5, <1>7, <1>12, <2>1 DEF Apart
<1>14. TakenArePlaced'
  <2>1. ASSUME NEW a \in Addr, NEW q \in Queued(a)
        PROVE  packet'[q] # NULL /\ packet'[q].addr = a
    <3>1. q \in Packet /\ q # p
      BY <1>11, QueuedIsPacket DEF PacketInv
    <3>2. QED BY <1>8, <3>1 DEF PacketInv, TakenArePlaced
  <2>2. ASSUME NEW q \in Range(Tail(dequeued)) PROVE packet'[q] # NULL
    <3>1. q \in Range(Unreported) /\ q # p /\ q \in Packet
      BY <1>5, <1>7, UnreportedArePackets DEF PacketInv
    <3>2. QED BY <1>8, <3>1 DEF PacketInv, TakenArePlaced
  <2>3. ASSUME NEW q \in Packet, packet'[q] # NULL
        PROVE  q \in Queued(packet'[q].addr) \cup Range(Tail(dequeued))
    <3>1. q # p /\ packet'[q] = packet[q]
      BY <1>8, <2>3
    <3>2. q \in Queued(packet[q].addr) \cup Range(dequeued)
      BY <1>5, <2>3, <3>1 DEF PacketInv, TakenArePlaced
    <3>3. QED BY <1>7, <3>1, <3>2
  <2>4. QED BY <1>5, <1>12, <2>1, <2>2, <2>3 DEF TakenArePlaced
<1>15. QueuesAreListed'
  BY <1>1 DEF PacketInv, QueuesAreListed, Listed
<1>16. SlotKeepsItsPacket'
  <2>1. CASE slot.at = "tx"
    <3>1. /\ slot.n \in Addr /\ slot.p \in Packet
          /\ tx_ringbuf[slot.n] \in Seq(Packet) /\ Distinct(tx_ringbuf[slot.n])
          /\ tx_ringbuf[slot.n] # <<>> /\ slot.p = Head(tx_ringbuf[slot.n])
      BY <2>1, SlotShape DEF PacketInv, SlotKeepsItsPacket, Shapes, Apart
    <3>2. slot.p \in Queued(slot.n)
      BY <3>1, HeadLeaves DEF Queued
    <3>3. packet'[slot.p] = packet[slot.p]
      BY <1>8, <1>11, <3>1, <3>2
    <3>4. QED BY <1>1, <2>1, <3>3
              DEF PacketInv, SlotKeepsItsPacket, DequeuedFull, Listed
  <2>2. CASE slot.at # "tx"
    BY <1>1, <2>2 DEF SlotKeepsItsPacket
  <2>3. QED BY <2>1, <2>2
<1>17. QED BY <1>9, <1>10, <1>13, <1>14, <1>15, <1>16 DEF PacketInv

LEMMA SweepDonePackets ==
  ASSUME PacketInv, SweepDone
  PROVE  PacketInv'
<1>1. /\ UNCHANGED <<op, slot, neighbor_list, tsch_is_associated, tx_ringbuf, packet>>
      /\ op = Idle /\ main.at = "sweep"
      /\ dequeued' = DropHead(dequeued) /\ main' = [main EXCEPT !.at = "tx"]
  BY DEF SweepDone, MainStep
<1>2. main \in Busy /\ main # Idle
  BY <1>1, MainShape DEF PacketInv
<1>3. main' \in Busy /\ main'.at = "tx" /\ main'.reset = main.reset
  BY <1>1, <1>2 DEF Busy
<1>4. dequeued \in Seq(Packet) /\ dequeued # <<>> /\ Len(dequeued) < DequeuedSize
  BY <1>1 DEF PacketInv, Shapes, Positions
<1>5. /\ dequeued' = Tail(dequeued) /\ dequeued' \in Seq(Packet)
      /\ Len(dequeued') < DequeuedSize - 1
  BY <1>1, <1>4, HeadTailProperties, TschAssumption DEF DropHead
<1>6. Unreported' = Unreported /\ Flushing' = Flushing
  BY <1>1, <1>3, <1>5 DEF Unreported, Flushing
<1>7. Shapes'
  BY <1>1, <1>3, <1>5, TschAssumption DEF PacketInv, Shapes
<1>8. Positions'
  <2>1. main'.reset => ~tsch_is_associated
    BY <1>2, <1>3 DEF PacketInv, Positions
  <2>2. op.at \notin {"lock", "wait", "locked", "queue"}
    BY <1>1 DEF Idle
  <2>3. QED BY <1>1, <1>3, <2>1, <2>2 DEF PacketInv, Positions
<1>9. \A a : (Queued(a)' = Queued(a)) /\ (Listed(a)' <=> Listed(a))
  BY <1>1 DEF Queued, Listed
<1>10. Apart' /\ TakenArePlaced' /\ QueuesAreListed'
  BY <1>1, <1>6, <1>9 DEF PacketInv, Apart, TakenArePlaced, QueuesAreListed
<1>11. ~DequeuedFull'
  BY <1>5, TschAssumption DEF DequeuedFull
<1>12. SlotKeepsItsPacket'
  BY <1>1, <1>9, <1>11 DEF PacketInv, SlotKeepsItsPacket, Listed
<1>13. QED BY <1>7, <1>8, <1>10, <1>12 DEF PacketInv

\* While the queues are flushed no slot is sending.
LEMMA FlushExcludesTx ==
  ASSUME PacketInv, main.at \in {"flush", "flushed"}
  PROVE  slot.at # "tx" /\ ~tsch_is_associated /\ main.reset
<1>1. main.reset /\ main # Idle
  BY MainShape DEF PacketInv, Positions
<1>2. QED BY <1>1 DEF PacketInv, Positions

LEMMA NoBackoffKeeps ==
  ASSUME PacketInv, FlushNbrQueue, tx_ringbuf[Head(main.todo)] = <<>>
  PROVE  PacketInv'
<1>1. /\ MainStep /\ UNCHANGED <<tx_ringbuf, packet, dequeued>> /\ main.at = "flush"
      /\ main.todo # <<>> /\ main' = [main EXCEPT !.todo = Tail(@)]
  BY DEF FlushNbrQueue, ringvars
<1>2. main \in Busy /\ main.todo \in Seq(Addr)
  BY <1>1, MainShape DEF PacketInv, Busy
<1>3. Tail(main.todo) \in Seq(Addr)
  BY <1>1, <1>2, HeadTailProperties
<1>4. main' \in Busy /\ main'.at = "flush" /\ main'.reset = main.reset
  BY <1>1, <1>2, <1>3 DEF Busy
<1>5. ~tsch_is_associated /\ main.reset
  BY <1>1, FlushExcludesTx
<1>6. Unreported' = Unreported /\ Flushing' = Flushing
  BY <1>1, <1>4 DEF Unreported, Flushing
<1>7. QED BY <1>1, <1>4, <1>5, <1>6, WalkStays

\* A packet leaves its queue to be reported.
LEMMA FlushPackets ==
  ASSUME PacketInv, FlushNbrQueue, tx_ringbuf[Head(main.todo)] # <<>>
  PROVE  PacketInv'
<1> DEFINE a == Head(main.todo)
           s == tx_ringbuf[a]
           p == Head(s)
<1>1. /\ UNCHANGED <<op, slot, neighbor_list, tsch_is_associated, packet, dequeued>>
      /\ op = Idle /\ main.at = "flush" /\ main.todo # <<>>
      /\ tx_ringbuf' = [tx_ringbuf EXCEPT ![a] = Tail(s)]
      /\ main' = [main EXCEPT !.at = "flushed", !.p = p]
  BY DEF FlushNbrQueue, MainStep, ringvars, Flushed
<1>2. main \in Busy /\ main.todo \in Seq(Addr)
  BY <1>1, MainShape DEF PacketInv, Busy
<1>3. a \in Addr
  BY <1>1, <1>2, HeadTailProperties
<1>4. ~tsch_is_associated /\ main.reset /\ slot.at # "tx"
  BY <1>1, FlushExcludesTx
<1>5. s # <<>>
  OBVIOUS
<1> HIDE DEF a
<1>6. s \in Seq(Packet) /\ Distinct(s) /\ Len(s) < QueueSize
  BY <1>3 DEF PacketInv, Shapes, Apart
<1>7. /\ Tail(s) \in Seq(Packet) /\ Distinct(Tail(s)) /\ Len(Tail(s)) < QueueSize
      /\ p \in Packet /\ p \in Queued(a) /\ Range(Tail(s)) = Queued(a) \ {p}
  BY <1>5, <1>6, HeadLeaves, HeadTailProperties, TschAssumption DEF Queued
<1> HIDE DEF p
<1>8. main' \in Busy /\ main'.at = "flushed" /\ main'.p = p /\ main'.reset = main.reset
  BY <1>1, <1>2, <1>7 DEF Busy
<1>9. /\ tx_ringbuf' \in [Addr -> Seq(Packet)]
      /\ \A b \in Addr : tx_ringbuf'[b] = IF b = a THEN Tail(s) ELSE tx_ringbuf[b]
      /\ \A b \in Addr : Queued(b)' = IF b = a THEN Queued(a) \ {p} ELSE Queued(b)
  BY <1>1, <1>3, <1>7 DEF PacketInv, Shapes, Queued
<1>10. /\ Unreported' = Unreported /\ Flushing = {} /\ Flushing' = {p}
       /\ \A b : Listed(b)' <=> Listed(b)
  BY <1>1, <1>8 DEF Unreported, Flushing, Listed
<1>11. /\ packet[p] # NULL /\ packet[p].addr = a
       /\ p \notin Range(Unreported)
       /\ \A b \in Addr : b # a => p \notin Queued(b)
  BY <1>3, <1>7 DEF PacketInv, Apart, TakenArePlaced
<1>12. Shapes'
  BY <1>1, <1>7, <1>8, <1>9 DEF PacketInv, Shapes
<1>13. Positions'
  <2>1. op.at \notin {"lock", "wait", "locked", "queue"}
    BY <1>1 DEF Idle
  <2>2. QED BY <1>1, <1>4, <1>7, <1>8, <2>1 DEF Positions
<1>14. Apart'
  <2>1. ASSUME NEW b \in Addr
        PROVE  Distinct(tx_ringbuf'[b]) /\ Queued(b)' \cap (Range(Unreported) \cup {p}) = {}
    <3>1. Distinct(tx_ringbuf[b]) /\ Queued(b) \cap Range(Unreported) = {}
      BY DEF PacketInv, Apart
    <3>2. Distinct(tx_ringbuf'[b])
      BY <1>7, <1>9, <3>1
    <3>3. Queued(b)' \subseteq Queued(b) /\ p \notin Queued(b)'
      BY <1>9, <1>11
    <3>4. QED BY <3>1, <3>2, <3>3
  <2>2. Distinct(Unreported)
    BY DEF PacketInv, Apart
  <2>3. QED BY <1>10, <1>11, <2>1, <2>2 DEF Apart
<1>15. TakenArePlaced'
  <2>1. ASSUME NEW b \in Addr, NEW q \in Queued(b)'
        PROVE  packet[q] # NULL /\ packet[q].addr = b
    <3>1. q \in Queued(b)
      BY <1>9, <2>1
    <3>2. QED BY <3>1 DEF PacketInv, TakenArePlaced
  <2>2. \A q \in Range(Unreported) \cup {p} : packet[q] # NULL
    BY <1>11 DEF PacketInv, TakenArePlaced
  <2>3. ASSUME NEW q \in Packet, packet[q] # NULL
        PROVE  q \in Queued(packet[q].addr)' \cup Range(Unreported) \cup {p}
    <3>1. packet[q].addr \in Addr
      BY <2>3 DEF PacketInv, Shapes, Contents
    <3>2. q \in Queued(packet[q].addr) \cup Range(Unreported)
      BY <1>10, <2>3 DEF PacketInv, TakenArePlaced
    <3>3. Queued(packet[q].addr) \ {p} \subseteq Queued(packet[q].addr)'
      BY <1>1, <1>9, <3>1
    <3>4. QED BY <3>2, <3>3
  <2>4. QED BY <1>1, <1>10, <2>1, <2>2, <2>3 DEF TakenArePlaced
<1>16. QueuesAreListed'
  BY <1>5, <1>9, <1>10 DEF PacketInv, QueuesAreListed
<1>17. SlotKeepsItsPacket'
  BY <1>1, <1>4 DEF SlotKeepsItsPacket
<1>18. QED BY <1>12, <1>13, <1>14, <1>15, <1>16, <1>17 DEF PacketInv

LEMMA FlushedPackets ==
  ASSUME PacketInv, FlushedReturns
  PROVE  PacketInv'
<1> DEFINE p == main.p
<1>1. /\ UNCHANGED <<op, slot, neighbor_list, tsch_is_associated, tx_ringbuf, dequeued>>
      /\ op = Idle /\ main.at = "flushed"
      /\ packet' = [packet EXCEPT ![p] = NULL]
      /\ main' = [main EXCEPT !.at = "flush", !.p = NULL]
  BY DEF FlushedReturns, MainStep, ringvars
<1>2. main \in Busy /\ p \in Packet
  BY <1>1, MainShape DEF PacketInv, Positions
<1>3. ~tsch_is_associated /\ main.reset /\ slot.at # "tx"
  BY <1>1, FlushExcludesTx
<1>4. main' \in Busy /\ main'.at = "flush" /\ main'.reset = main.reset
  BY <1>1, <1>2 DEF Busy
<1>5. Unreported' = Unreported /\ Flushing = {p} /\ Flushing' = {}
  BY <1>1, <1>4 DEF Unreported, Flushing
<1> HIDE DEF p
<1>6. /\ packet' \in [Packet -> Contents \cup {NULL}] /\ packet'[p] = NULL
      /\ \A q \in Packet \ {p} : packet'[q] = packet[q]
  BY <1>1, <1>2 DEF PacketInv, Shapes
<1>7. Shapes'
  BY <1>1, <1>4, <1>6 DEF PacketInv, Shapes
<1>8. Positions'
  <2>1. op.at \notin {"lock", "wait", "locked", "queue"}
    BY <1>1 DEF Idle
  <2>2. QED BY <1>1, <1>3, <1>4, <2>1 DEF Positions
<1>9. /\ \A a : (Queued(a)' = Queued(a)) /\ (Listed(a)' <=> Listed(a))
      /\ \A a \in Addr : p \notin Queued(a)
      /\ p \notin Range(Unreported)
  BY <1>1, <1>5 DEF PacketInv, Apart, Queued, Listed
<1>10. Apart'
  BY <1>1, <1>5, <1>9 DEF PacketInv, Apart
<1>11. TakenArePlaced'
  <2>1. ASSUME NEW a \in Addr, NEW q \in Queued(a)
        PROVE  packet'[q] # NULL /\ packet'[q].addr = a
    <3>1. q \in Packet /\ q # p
      BY <1>9, QueuedIsPacket DEF PacketInv
    <3>2. QED BY <1>6, <3>1 DEF PacketInv, TakenArePlaced
  <2>2. ASSUME NEW q \in Range(Unreported) PROVE packet'[q] # NULL
    <3>1. q # p /\ q \in Packet
      BY <1>9, UnreportedArePackets DEF PacketInv
    <3>2. QED BY <1>6, <3>1 DEF PacketInv, TakenArePlaced
  <2>3. ASSUME NEW q \in Packet, packet'[q] # NULL
        PROVE  q \in Queued(packet'[q].addr) \cup Range(Unreported)
    <3>1. q # p /\ packet'[q] = packet[q]
      BY <1>6, <2>3
    <3>2. q \in Queued(packet[q].addr) \cup Range(Unreported) \cup {p}
      BY <1>5, <2>3, <3>1 DEF PacketInv, TakenArePlaced
    <3>3. QED BY <3>1, <3>2
  <2>4. QED BY <1>5, <1>9, <2>1, <2>2, <2>3 DEF TakenArePlaced
<1>12. QueuesAreListed'
  BY <1>1, <1>9 DEF PacketInv, QueuesAreListed
<1>13. SlotKeepsItsPacket'
  BY <1>1, <1>3 DEF SlotKeepsItsPacket
<1>14. QED BY <1>7, <1>8, <1>10, <1>11, <1>12, <1>13 DEF PacketInv

\* A packet has been sent, for the last time or not.
LEMMA TxEndPackets ==
  ASSUME PacketInv, NEW status \in Status, TxEnd(status)
  PROVE  PacketInv'
<1> DEFINE n == slot.n
           p == slot.p
           tries == packet[p].transmissions + 1
           leaves == status = "OK" \/ tries >= MaxRetries + 1
           s == tx_ringbuf[n]
           rest == IF leaves THEN DropHead(s) ELSE s
           new == [packet[p] EXCEPT !.transmissions = tries, !.ret = status]
<1>1. /\ UNCHANGED <<op, main, neighbor_list>> /\ slot.at = "tx"
      /\ packet' = [packet EXCEPT ![p] = new]
      /\ tx_ringbuf' = [tx_ringbuf EXCEPT ![n] = rest]
      /\ dequeued' = IF leaves THEN PutIn(dequeued, DequeuedSize, p) ELSE dequeued
  <2>1. packet' = [packet EXCEPT ![p].transmissions = tries, ![p].ret = status]
    BY DEF TxEnd
  <2>2. p \in Packet /\ packet \in [Packet -> Contents \cup {NULL}] /\ packet[p] # NULL
    BY SlotShape DEF TxEnd, PacketInv, Shapes, SlotKeepsItsPacket
  <2>3. packet' = [packet EXCEPT ![p] = new]
    BY <2>1, <2>2 DEF Contents
  <2>4. QED BY <2>3 DEF TxEnd, SlotStep
<1>2. slot' \in {Armed, Off} /\ (tsch_is_associated' => tsch_is_associated)
  BY Zenon DEF TxEnd, EndSlot, NextSlot, LoseSync
<1>3. /\ n \in Addr /\ p \in Packet /\ s \in Seq(Packet) /\ s # <<>> /\ p = Head(s)
      /\ Len(s) < QueueSize /\ Distinct(s) /\ Listed(n)
      /\ packet[p] # NULL /\ packet[p].addr = n /\ packet[p] \in Contents
      /\ ~DequeuedFull
  <2>1. n \in Addr /\ p \in Packet
    BY <1>1, SlotShape DEF PacketInv
  <2>2. QED BY <1>1, <2>1 DEF PacketInv, Shapes, Apart, SlotKeepsItsPacket
<1> HIDE DEF n, p, leaves
<1>4. new \in Contents /\ new.addr = n /\ new # NULL
  <2>1. packet[p].transmissions \in Nat
    BY <1>3 DEF Contents
  <2>2. tries \in Nat
    BY <2>1
  <2> HIDE DEF tries
  <2>3. new \in Contents /\ new.addr = n
    BY <1>3, <2>2 DEF Contents
  <2>4. QED BY <2>3, TschAssumption
<1> HIDE DEF new
<1>5. /\ packet' \in [Packet -> Contents \cup {NULL}]
      /\ packet'[p] # NULL /\ packet'[p].addr = n
      /\ \A q \in Packet \ {p} : packet'[q] = packet[q]
  BY <1>1, <1>3, <1>4 DEF PacketInv, Shapes
<1>6. /\ rest \in Seq(Packet) /\ Distinct(rest) /\ Len(rest) < QueueSize
      /\ p \in Queued(n)
      /\ Range(rest) = IF leaves THEN Queued(n) \ {p} ELSE Queued(n)
  <2>1. /\ Tail(s) \in Seq(Packet) /\ Distinct(Tail(s)) /\ Len(Tail(s)) < QueueSize
        /\ p \in Queued(n) /\ Range(Tail(s)) = Queued(n) \ {p}
    BY <1>3, HeadLeaves, HeadTailProperties, TschAssumption DEF Queued
  <2>2. rest = IF leaves THEN Tail(s) ELSE s
    BY <1>3 DEF DropHead
  <2>3. QED BY <1>3, <2>1, <2>2 DEF Queued
<1> HIDE DEF rest
<1>7. /\ tx_ringbuf' \in [Addr -> Seq(Packet)]
      /\ \A b \in Addr : tx_ringbuf'[b] = IF b = n THEN rest ELSE tx_ringbuf[b]
      /\ \A b \in Addr : Queued(b)' = IF b = n /\ leaves THEN Queued(n) \ {p} ELSE Queued(b)
  BY <1>1, <1>3, <1>6 DEF PacketInv, Shapes, Queued
<1>8. /\ Unreported \in Seq(Packet) /\ Distinct(Unreported)
      /\ p \notin Range(Unreported) \cup Flushing
      /\ \A b \in Addr : b # n => p \notin Queued(b)
  BY <1>3, <1>6, UnreportedArePackets DEF PacketInv, Apart, TakenArePlaced
<1>9. dequeued \in Seq(Packet) /\ Len(dequeued) < DequeuedSize
  BY DEF PacketInv, Shapes
<1>10. dequeued' = IF leaves THEN Append(dequeued, p) ELSE dequeued
  BY <1>1, <1>3 DEF PutIn, DequeuedFull
<1>11. /\ dequeued' \in Seq(Packet) /\ Len(dequeued') < DequeuedSize
       /\ dequeued # <<>> => dequeued' # <<>> /\ Head(dequeued') = Head(dequeued)
  <2>1. /\ Append(dequeued, p) \in Seq(Packet) /\ Len(Append(dequeued, p)) < DequeuedSize
        /\ Append(dequeued, p) # <<>>
        /\ dequeued # <<>> => Head(Append(dequeued, p)) = Head(dequeued)
    <3>1. Len(dequeued) \in Nat /\ Len(dequeued) < DequeuedSize - 1
      BY <1>3, <1>9, TschAssumption DEF DequeuedFull
    <3>2. /\ Append(dequeued, p) \in Seq(Packet) /\ Append(dequeued, p) # <<>>
          /\ Len(Append(dequeued, p)) = Len(dequeued) + 1
      BY <1>3, <1>9, AppendProperties
    <3>3. Head(Append(dequeued, p)) = IF dequeued = <<>> THEN p ELSE Head(dequeued)
      BY <1>3, <1>9, HeadTailAppend
    <3>4. QED BY <3>1, <3>2, <3>3, TschAssumption
  <2>2. QED BY <1>9, <1>10, <2>1
<1>12. Unreported' = IF leaves THEN Append(Unreported, p) ELSE Unreported
  <2>1. main.at = "sweep" => dequeued # <<>>
    BY DEF PacketInv, Positions
  <2>2. dequeued # <<>> => Tail(Append(dequeued, p)) = Append(Tail(dequeued), p)
    BY <1>3, <1>9, HeadTailAppend
  <2>3. QED BY <1>1, <1>10, <2>1, <2>2 DEF Unreported
<1>13. /\ Distinct(Unreported') /\ Flushing' = Flushing
       /\ Range(Unreported') = IF leaves THEN Range(Unreported) \cup {p} ELSE Range(Unreported)
  <2>1. /\ Distinct(Append(Unreported, p))
        /\ Range(Append(Unreported, p)) = Range(Unreported) \cup {p}
    BY <1>3, <1>8, AppendKeeps
  <2>2. CASE leaves
    BY <1>1, <1>12, <2>1, <2>2 DEF Flushing
  <2>3. CASE ~leaves
    BY <1>1, <1>8, <1>12, <2>3 DEF Flushing
  <2>4. QED BY <2>2, <2>3
<1>14. Shapes'
  BY <1>1, <1>2, <1>5, <1>6, <1>7, <1>11 DEF PacketInv, Shapes
<1>15. Positions'
  <2>1. slot'.at # "tx"
    BY <1>2 DEF Armed, Off
  <2>2. op.at \notin {"lock", "wait", "locked", "queue"} \/ op.job.do # "remove"
        \/ (op.job.addr \in Addr /\ tx_ringbuf[op.job.addr] = <<>>)
    BY OpShape DEF PacketInv, Positions, Job
  <2>3. op.at \in {"lock", "wait", "locked", "queue"} /\ op.job.do = "remove" =>
          tx_ringbuf'[op.job.addr] = <<>>
    BY <1>3, <1>7, <2>2
  <2>4. QED BY <1>1, <1>2, <1>11, <2>1, <2>3 DEF PacketInv, Positions
<1>16. Apart'
  <2>1. ASSUME NEW b \in Addr
        PROVE  /\ Distinct(tx_ringbuf'[b])
               /\ Queued(b)' \cap (Range(Unreported') \cup Flushing) = {}
    <3>1. Distinct(tx_ringbuf[b]) /\ Queued(b) \cap (Range(Unreported) \cup Flushing) = {}
      BY DEF PacketInv, Apart
    <3>2. Distinct(tx_ringbuf'[b])
      BY <1>6, <1>7, <3>1
    <3>3. Queued(b)' \subseteq Queued(b) /\ (leaves => p \notin Queued(b)')
      BY <1>7, <1>8
    <3>4. QED BY <1>13, <3>1, <3>2, <3>3
  <2>2. Range(Unreported) \cap Flushing = {}
    BY DEF PacketInv, Apart
  <2>3. Range(Unreported') \cap Flushing = {}
    BY <1>8, <1>13, <2>2
  <2>4. QED BY <1>13, <2>1, <2>3 DEF Apart
<1>17. TakenArePlaced'
  <2>1. ASSUME NEW b \in Addr, NEW q \in Queued(b)'
        PROVE  packet'[q] # NULL /\ packet'[q].addr = b
    <3>1. q \in Queued(b)
      BY <1>7, <2>1
    <3>2. q \in Packet /\ packet[q] # NULL /\ packet[q].addr = b
      BY <3>1, QueuedIsPacket DEF PacketInv, TakenArePlaced
    <3>3. QED BY <1>3, <1>5, <3>2
  <2>2. ASSUME NEW q \in Range(Unreported') \cup Flushing PROVE packet'[q] # NULL
    <3>1. q = p \/ q \in Range(Unreported) \cup Flushing
      BY <1>13, <2>2
    <3>2. CASE q = p
      BY <1>5, <3>2
    <3>3. CASE q \in Range(Unreported) \cup Flushing
      <4>1. q \in Packet /\ packet[q] # NULL /\ q # p
        BY <1>8, <3>3, UnreportedArePackets DEF PacketInv, TakenArePlaced
      <4>2. QED BY <1>5, <4>1
    <3>4. QED BY <3>1, <3>2, <3>3
  <2>3. ASSUME NEW q \in Packet, packet'[q] # NULL, NEW b, b = packet'[q].addr
        PROVE  q \in Queued(b)' \cup Range(Unreported') \cup Flushing
    <3>1. CASE q = p
      BY <1>3, <1>5, <1>6, <1>7, <1>13, <2>3, <3>1
    <3>2. CASE q # p
      <4>1. packet'[q] = packet[q] /\ b \in Addr
        BY <1>5, <2>3, <3>2 DEF PacketInv, Shapes, Contents
      <4>2. q \in Queued(b) \cup Range(Unreported) \cup Flushing
        BY <2>3, <4>1 DEF PacketInv, TakenArePlaced
      <4>3. QED BY <1>7, <1>13, <3>2, <4>1, <4>2
    <3>3. QED BY <3>1, <3>2
  <2>4. QED BY <1>13, <2>1, <2>2, <2>3 DEF TakenArePlaced
<1>18. QueuesAreListed'
  <2>1. \A b : Listed(b)' <=> Listed(b)
    BY <1>1 DEF Listed
  <2>2. QED BY <1>3, <1>7, <2>1 DEF PacketInv, QueuesAreListed
<1>19. SlotKeepsItsPacket'
  BY <1>2 DEF SlotKeepsItsPacket, Armed, Off
<1>20. QED BY <1>14, <1>15, <1>16, <1>17, <1>18, <1>19 DEF PacketInv

LEMMA StepPackets ==
  ASSUME PacketInv, InputInv, TschNext
  PROVE  PacketInv'
<1>1. CASE Slot
  BY <1>1, SlotPackets, StartTxPackets, TxEndPackets DEF Slot
<1>2. CASE Users
  BY <1>2, UsersPackets
<1>3. CASE RequestLock \/ TakeLock \/ AddNbr \/ RemoveNbr
  BY <1>3, LockPackets
<1>4. CASE \/ Reject \/ SetHeader \/ SetTimeSource \/ JoinFails
           \/ \E p \in Packet : Accept(p)
           \/ \E k \in DOMAIN Slotframe : Join(k)
  BY <1>4, ReturnPackets, AcceptPackets, JoinPackets
<1>5. CASE \/ PendingEvents \/ TschProcess \/ RxProcessPending \/ InputReturns
           \/ TxProcessPending \/ SentReturns \/ Sweep \/ SweepDone
  BY <1>5, BeginPackets, InputPackets, TxProcessPackets, SentPackets, SweepPackets,
     SweepDonePackets
<1>6. CASE FlushNbrQueue \/ FlushedReturns \/ FlushDone \/ ResetDone
  BY <1>6, NoBackoffKeeps, FlushPackets, FlushedPackets, ResetPackets
<1>7. QED BY <1>1, <1>2, <1>3, <1>4, <1>5, <1>6 DEF TschNext, Main

(* The invariant behind the theorems below: from tsch_queue_add_packet     *)
(* until it is freed a block of packet_memb is in one place, that of its   *)
(* receiver, of the ring to report, or of the flush.                       *)
THEOREM PacketsInvariant == TschSpec => [](InputInv /\ PacketInv)
<1>1. TschInit => InputInv /\ PacketInv
  BY InitInput, InitPackets
<1>2. InputInv /\ PacketInv /\ [TschNext]_vars => InputInv' /\ PacketInv'
  <2>1. ASSUME InputInv, PacketInv, UNCHANGED vars PROVE InputInv' /\ PacketInv'
    <3>1. UNCHANGED <<neighbor_list, tx_ringbuf, packet, dequeued, slot, op, main, input,
                      tsch_is_associated>>
      BY <2>1 DEF vars, nbrvars, ringvars, slotvars
    <3>2. Shapes' /\ Positions'
      BY <2>1, <3>1 DEF PacketInv, Shapes, Positions
    <3>3. Unreported' = Unreported /\ Flushing' = Flushing /\ \A a : Listed(a)' <=> Listed(a)
      BY <3>1 DEF Unreported, Flushing, Listed
    <3>4. PacketInv'
      BY <2>1, <3>1, <3>2, <3>3, Unmoved DEF PacketInv
    <3>5. QED BY <2>1, <3>1, <3>4 DEF InputInv, InputNotOverwritten
  <2>2. ASSUME InputInv, PacketInv, TschNext PROVE InputInv' /\ PacketInv'
    <3>1. InputInv'
      BY <2>2, SlotInput, RxProcessInput, MainInput, UsersInput DEF TschNext
    <3>2. QED BY <2>2, <3>1, StepPackets
  <2>3. QED BY <2>1, <2>2
<1>3. QED BY <1>1, <1>2, PTL DEF TschSpec

(* The packet that the slot operation sends over its yields stays the head *)
(* of the queue of a listed neighbour and taken, whatever the main thread  *)
(* reports, sweeps, flushes and joins meanwhile.                           *)
THEOREM SlotKeepsPacket == TschSpec => []SlotKeepsItsPacket
<1>1. PacketInv => SlotKeepsItsPacket
  BY DEF PacketInv
<1>2. QED BY <1>1, PacketsInvariant, PTL

LEMMA OnePlace ==
  ASSUME PacketInv, NEW p \in Packet
  PROVE  Cardinality(Places(p)) = IF packet[p] = NULL THEN 0 ELSE 1
<1> DEFINE Q == {at \in Addr \X (1..QueueSize) :
                   at[2] <= Len(tx_ringbuf[at[1]]) /\ tx_ringbuf[at[1]][at[2]] = p}
           D == {<<"dequeued", i>> : i \in {j \in DOMAIN dequeued : j > Reported /\ dequeued[j] = p}}
           F == IF main.at = "flushed" /\ main.p = p THEN {<<"flushed", 0>>} ELSE {}
<1>1. Places(p) = Q \cup D \cup F
  BY DEF Places
<1>2. /\ \A a \in Addr : /\ tx_ringbuf[a] \in Seq(Packet) /\ Len(tx_ringbuf[a]) < QueueSize
                         /\ DOMAIN tx_ringbuf[a] = 1..Len(tx_ringbuf[a])
      /\ dequeued \in Seq(Packet)
  BY DEF PacketInv, Shapes
<1>3. \A a \in Addr : \A i : <<a, i>> \in Q <=> i \in DOMAIN tx_ringbuf[a] /\ tx_ringbuf[a][i] = p
  <2>1. ASSUME NEW a \in Addr, NEW i
        PROVE  <<a, i>> \in Q <=> i \in DOMAIN tx_ringbuf[a] /\ tx_ringbuf[a][i] = p
    BY <1>2, TschAssumption
  <2>2. QED BY <2>1
<1>4. \A at \in Q : \E a \in Addr : \E i \in DOMAIN tx_ringbuf[a] :
        at = <<a, i>> /\ tx_ringbuf[a][i] = p
  <2>1. ASSUME NEW at \in Q
        PROVE  \E a \in Addr : \E i \in DOMAIN tx_ringbuf[a] : at = <<a, i>> /\ tx_ringbuf[a][i] = p
    <3>1. at = <<at[1], at[2]>> /\ at[1] \in Addr
      OBVIOUS
    <3>2. QED BY <1>3, <2>1, <3>1
  <2>2. QED BY <2>1
<1> HIDE DEF Q
\* An index of dequeued that is not reported yet is one of Unreported.
<1>5. \A i, j \in DOMAIN dequeued : i > Reported /\ j > Reported /\ dequeued[i] = dequeued[j] => i = j
  <2>1. CASE main.at # "sweep"
    BY <2>1 DEF PacketInv, Apart, Unreported, Distinct
  <2>2. CASE main.at = "sweep"
    <3>1. dequeued # <<>> /\ Unreported = Tail(dequeued) /\ Reported = 1
      BY <2>2 DEF PacketInv, Positions, Unreported, Reported
    <3>2. /\ Len(Unreported) = Len(dequeued) - 1 /\ Unreported \in Seq(Packet)
          /\ \A i \in 1 .. Len(Unreported) : Unreported[i] = dequeued[i + 1]
      BY <1>2, <3>1, HeadTailProperties
    <3>3. ASSUME NEW i \in DOMAIN dequeued, NEW j \in DOMAIN dequeued,
                 i > 1, j > 1, dequeued[i] = dequeued[j]
          PROVE  i = j
      <4>1. /\ i - 1 \in 1 .. Len(Unreported) /\ (i - 1) + 1 = i
            /\ j - 1 \in 1 .. Len(Unreported) /\ (j - 1) + 1 = j
        BY <1>2, <3>2, <3>3
      <4>2. Unreported[i - 1] = Unreported[j - 1]
        BY <3>2, <3>3, <4>1
      <4>3. i - 1 = j - 1
        BY <3>2, <4>1, <4>2 DEF PacketInv, Apart, Distinct
      <4>4. QED BY <4>1, <4>3
    <3>4. QED BY <3>1, <3>3
  <2>3. QED BY <2>1, <2>2
<1>6. p \in Range(Unreported) <=> \E j \in DOMAIN dequeued : j > Reported /\ dequeued[j] = p
  <2>1. CASE main.at # "sweep"
    BY <1>2, <2>1 DEF Unreported, Reported, Range
  <2>2. CASE main.at = "sweep"
    <3>1. dequeued # <<>> /\ Unreported = Tail(dequeued) /\ Reported = 1
      BY <2>2 DEF PacketInv, Positions, Unreported, Reported
    <3>2. /\ Len(Unreported) = Len(dequeued) - 1 /\ Unreported \in Seq(Packet)
          /\ \A i \in 1 .. Len(Unreported) : Unreported[i] = dequeued[i + 1]
      BY <1>2, <3>1, HeadTailProperties
    <3>3. ASSUME NEW i \in DOMAIN Unreported, Unreported[i] = p
          PROVE  i + 1 \in DOMAIN dequeued /\ i + 1 > 1 /\ dequeued[i + 1] = p
      BY <1>2, <3>2, <3>3
    <3>4. ASSUME NEW j \in DOMAIN dequeued, j > 1, dequeued[j] = p
          PROVE  j - 1 \in DOMAIN Unreported /\ Unreported[j - 1] = p
      <4>1. j - 1 \in 1 .. Len(Unreported) /\ (j - 1) + 1 = j
        BY <1>2, <3>2, <3>4
      <4>2. QED BY <3>2, <3>4, <4>1
    <3>5. QED BY <3>1, <3>3, <3>4 DEF Range
  <2>3. QED BY <2>1, <2>2
<1>7. F # {} <=> p \in Flushing
  BY DEF Flushing
<1>8. \A a \in Addr : p \in Queued(a) <=> \E i \in DOMAIN tx_ringbuf[a] : tx_ringbuf[a][i] = p
  BY DEF Queued, Range
<1>9. CASE packet[p] = NULL
  <2>1. \A a \in Addr : p \notin Queued(a)
    BY <1>9 DEF PacketInv, TakenArePlaced
  <2>2. p \notin Range(Unreported) /\ p \notin Flushing
    BY <1>9 DEF PacketInv, TakenArePlaced
  <2>3. Q = {}
    BY <1>4, <1>8, <2>1
  <2>4. D = {} /\ F = {}
    BY <1>6, <1>7, <2>2
  <2>5. QED BY <1>1, <1>9, <2>3, <2>4, FS_EmptySet
<1>10. CASE packet[p] # NULL
  <2>1. \E x : Q \cup D \cup F = {x}
    <3>1. packet[p].addr \in Addr /\ p \in Queued(packet[p].addr) \cup Range(Unreported) \cup Flushing
      BY <1>10 DEF PacketInv, TakenArePlaced, Shapes, Contents
    <3>2. CASE p \in Queued(packet[p].addr)
      <4>1. PICK i \in DOMAIN tx_ringbuf[packet[p].addr] : tx_ringbuf[packet[p].addr][i] = p
        BY <1>8, <3>1, <3>2
      <4>2. p \notin Range(Unreported) \cup Flushing
        BY <3>1, <3>2 DEF PacketInv, Apart
      <4>3. D = {} /\ F = {}
        BY <1>6, <1>7, <4>2
      <4>4. ASSUME NEW at \in Q PROVE at = <<packet[p].addr, i>>
        <5>1. PICK b \in Addr : \E j \in DOMAIN tx_ringbuf[b] : at = <<b, j>> /\ tx_ringbuf[b][j] = p
          BY <1>4, <4>4
        <5>2. PICK j \in DOMAIN tx_ringbuf[b] : at = <<b, j>> /\ tx_ringbuf[b][j] = p
          BY <5>1
        <5>3. b = packet[p].addr
          BY <1>8, <5>2 DEF PacketInv, TakenArePlaced
        <5>4. i = j
          BY <3>1, <4>1, <5>2, <5>3 DEF PacketInv, Apart, Distinct
        <5>5. QED BY <5>2, <5>3, <5>4
      <4>5. <<packet[p].addr, i>> \in Q
        BY <1>3, <3>1, <4>1
      <4>6. QED BY <4>3, <4>4, <4>5
    <3>3. CASE p \in Range(Unreported)
      <4>1. PICK j \in DOMAIN dequeued : j > Reported /\ dequeued[j] = p
        BY <1>6, <3>3
      <4>2. (\A a \in Addr : p \notin Queued(a)) /\ p \notin Flushing
        BY <3>3 DEF PacketInv, Apart
      <4>3. Q = {} /\ F = {}
        BY <1>4, <1>7, <1>8, <4>2
      <4>4. D = {<<"dequeued", j>>}
        BY <1>5, <4>1
      <4>5. QED BY <4>3, <4>4
    <3>4. CASE p \in Flushing
      <4>1. (\A a \in Addr : p \notin Queued(a)) /\ p \notin Range(Unreported)
        BY <3>4 DEF PacketInv, Apart
      <4>2. Q = {} /\ D = {}
        BY <1>4, <1>6, <1>8, <4>1
      <4>3. F = {<<"flushed", 0>>}
        BY <1>7, <3>4
      <4>4. QED BY <4>2, <4>3
    <3>5. QED BY <3>1, <3>2, <3>3, <3>4
  <2>2. Cardinality(Q \cup D \cup F) = 1
    BY <2>1, FS_Singleton
  <2>3. QED BY <1>1, <1>10, <2>2
<1>11. QED BY <1>9, <1>10

(* No packet is lost, leaked or queued twice: a block is taken exactly     *)
(* while it is in one place, and a queue holds packets to its own, listed  *)
(* neighbour only.                                                         *)
THEOREM PacketsAreKept == TschSpec => []PacketsBalance
<1>1. PacketInv => PacketsBalance
  <2>1. ASSUME PacketInv, NEW p \in Packet, NEW a \in Addr, p \in Range(tx_ringbuf[a])
        PROVE  Listed(a) /\ packet[p].addr = a
    <3>1. tx_ringbuf[a] # <<>>
      BY <2>1 DEF Range
    <3>2. QED BY <2>1, <3>1 DEF PacketInv, QueuesAreListed, TakenArePlaced, Queued
  <2>2. QED BY <2>1, OnePlace DEF PacketsBalance
<1>2. QED BY <1>1, PacketsInvariant, PTL

----------------------------------------------------------------------------
(* Types *)

\* What InputInv and PacketInv leave to be shown.  Inside its queue a packet may be
\* sent once more.
Flags == {tsch_is_associated, scanning, tsch_locked, tsch_lock_requested, polled}
BackoffOk(b) == /\ b \in [Addr -> [window: Nat, exponent: MinBE..MaxBE]]
                /\ \A a \in Addr : b[a].window \in {0} \cup 1..2^b[a].exponent
TriesOk ==
  \A p \in Packet : packet[p] # NULL =>
    /\ packet[p].transmissions <= MaxRetries + 1
    /\ p \in Queued(packet[p].addr) => packet[p].transmissions <= MaxRetries
LinksOk == current_link \in Link \cup {NULL} /\ asn \in DOMAIN Slotframe

LEMMA TypesFollow ==
  ASSUME InputInv, PacketInv, Flags \subseteq BOOLEAN, Len(neighbor_list) <= MaxNeighbors,
         BackoffOk(backoff), time_source \in Unicast \cup {NULL}, TriesOk, LinksOk
  PROVE  TschTypeOK
<1>1. Shapes
  BY DEF PacketInv
<1>2. main \in {Idle} \cup [at: {"rx", "input", "tx", "sent", "sweep", "flush", "flushed",
                                "last sweep"},
                           reset: BOOLEAN, todo: Seq(Addr), p: Packet \cup {NULL},
                           index: 0..(InputSize - 1) \cup {NULL}]
  BY <1>1 DEF Shapes, Busy
<1>3. input \in [put: 0..(InputSize - 1), get: 0..(InputSize - 1)]
  BY DEF InputInv
<1>4. \A p \in Packet : packet[p] # NULL => packet[p].transmissions <= MaxRetries + 1
  BY DEF TriesOk
<1>5. QED
  BY <1>1, <1>2, <1>3, <1>4 DEF TschTypeOK, Shapes, Flags, BackoffOk, LinksOk

LEMMA NoBackoffOk == NoBackoff \in [window: Nat, exponent: MinBE..MaxBE] /\ NoBackoff.window = 0
BY TschAssumption DEF NoBackoff

LEMMA SetBackoff ==
  ASSUME NEW b, BackoffOk(b), NEW a \in Addr,
         NEW x \in [window: Nat, exponent: MinBE..MaxBE], x.window \in {0} \cup 1..2^x.exponent
  PROVE  BackoffOk([b EXCEPT ![a] = x])
BY DEF BackoffOk

LEMMA AfterSlotOk ==
  ASSUME NEW b, BackoffOk(b), NEW l
  PROVE  BackoffOk(AfterSlot(b, l))
<1> DEFINE c == AfterSlot(b, l)
<1>1. c = [a \in Addr |-> c[a]]
  BY DEF AfterSlot
<1>2. ASSUME NEW a \in Addr
      PROVE  /\ c[a] \in [window: Nat, exponent: MinBE..MaxBE]
             /\ c[a].window \in {0} \cup 1..2^c[a].exponent
  <2>1. b[a] \in [window: Nat, exponent: MinBE..MaxBE] /\ b[a].window \in {0} \cup 1..2^b[a].exponent
    BY DEF BackoffOk
  <2>2. c[a] = b[a] \/ (b[a].window # 0 /\ c[a] = [b[a] EXCEPT !.window = b[a].window - 1])
    BY DEF AfterSlot
  <2>3. CASE b[a].window # 0 /\ c[a] = [b[a] EXCEPT !.window = b[a].window - 1]
    <3>1. b[a].window \in 1..2^b[a].exponent /\ b[a].exponent \in Nat
      BY <2>1, <2>3, TschAssumption
    <3>2. /\ c[a].window = b[a].window - 1 /\ c[a].exponent = b[a].exponent
          /\ c[a] \in [window: Nat, exponent: MinBE..MaxBE]
      BY <2>1, <2>3, <3>1
    <3>3. b[a].window - 1 = 0 \/ b[a].window - 1 \in 1..2^b[a].exponent
      BY <3>1
    <3>4. QED BY <3>2, <3>3
  <2>4. QED BY <2>1, <2>2, <2>3
<1> HIDE DEF c
<1>3. c \in [Addr -> [window: Nat, exponent: MinBE..MaxBE]]
  BY <1>1, <1>2
<1>4. QED BY <1>2, <1>3 DEF BackoffOk, c

LEMMA IncOk ==
  ASSUME NEW b \in [window: Nat, exponent: MinBE..MaxBE], NEW c \in Inc(b)
  PROVE  c \in [window: Nat, exponent: MinBE..MaxBE] /\ c.window \in {0} \cup 1..2^c.exponent
<1> DEFINE e == IF b.exponent + 1 < MaxBE THEN b.exponent + 1 ELSE MaxBE
<1>1. e \in MinBE..MaxBE
  BY TschAssumption
<1>2. PICK w \in 1..2^e : c = [window |-> w, exponent |-> e]
  BY DEF Inc
<1> HIDE DEF e
<1>3. w \in Nat
  BY <1>2
<1>4. QED BY <1>1, <1>2, <1>3

LEMMA LinksAreLinks ==
  \A k \in DOMAIN Slotframe : /\ Slotframe[k].link \in Link
                              /\ Slotframe[k].backup \in Link \cup {NULL}
<1> DEFINE S == [link: Link, backup: Link \cup {NULL}]
<1>1. Slotframe \in Seq(S)
  BY TschAssumption
<1> HIDE DEF S
<1>2. \A k \in DOMAIN Slotframe : Slotframe[k] \in S
  BY <1>1
<1>3. QED BY <1>2 DEF S

LEMMA NextAsn == ASSUME NEW k PROVE (k % Len(Slotframe)) + 1 \in DOMAIN Slotframe \/ k \notin Nat
<1>1. Len(Slotframe) \in Nat \ {0} /\ DOMAIN Slotframe = 1..Len(Slotframe)
  BY TschAssumption, EmptySeq
<1>2. CASE k \in Nat
  BY <1>1, <1>2
<1>3. QED BY <1>2

\* The end of a slot.
LEMMA EndSlotTypes ==
  ASSUME NEW b, BackoffOk(b), NEW l, EndSlot(b, l), LinksOk, tsch_is_associated \in BOOLEAN
  PROVE  BackoffOk(backoff') /\ LinksOk' /\ tsch_is_associated' \in BOOLEAN
<1>1. CASE NextSlot(b, l)
  <2>1. asn' \in DOMAIN Slotframe
    <3>1. asn \in Nat /\ asn' = (asn % Len(Slotframe)) + 1
      BY <1>1, TschAssumption DEF LinksOk, NextSlot
    <3>2. QED BY <3>1, NextAsn
  <2>2. current_link' \in Link \cup {NULL}
    BY <1>1, <2>1, LinksAreLinks DEF NextSlot
  <2>3. QED BY <1>1, <2>1, <2>2, AfterSlotOk DEF NextSlot, LinksOk
<1>2. CASE LoseSync(b)
  BY <1>2 DEF LoseSync, LinksOk
<1>3. QED BY <1>1, <1>2 DEF EndSlot

LEMMA LinkOfSlotOk ==
  ASSUME LinksOk, current_link # NULL
  PROVE  LinkOfSlot \in Link
BY LinksAreLinks DEF LinksOk, LinkOfSlot

\* Only a neighbour that may be one becomes the time source.
SourcesOk == op.at \in {"lock", "wait", "locked", "queue"} /\ op.job.do \in {"source", "join"} =>
               op.job.addr \in Unicast

\* The slot operation changes the backoffs, the link, and a packet's tries.
Slow == /\ Flags \subseteq BOOLEAN /\ Len(neighbor_list) <= MaxNeighbors
        /\ BackoffOk(backoff) /\ time_source \in Unicast \cup {NULL}
        /\ LinksOk /\ SourcesOk

LEMMA SlotTypes ==
  ASSUME PacketInv, Slow, Slot
  PROVE  Slow'
<1> USE DEF Slow
<1>1. UNCHANGED <<tsch_locked, tsch_lock_requested, neighbor_list, time_source, scanning>>
  BY DEF Slot, SkipSlot, IdleSlot, StartTx, StartRx, RxFrame, RxEnd, TxEnd, SlotStep, lockvars
<1>2. polled' = polled \/ polled' = TRUE
  BY DEF Slot, SkipSlot, IdleSlot, StartTx, StartRx, RxFrame, RxEnd, TxEnd, ringvars
<1>3. tsch_is_associated \in BOOLEAN
  BY DEF Flags
<1>4. BackoffOk(backoff') /\ LinksOk' /\ tsch_is_associated' \in BOOLEAN
  <2>1. CASE SkipSlot \/ IdleSlot \/ RxEnd
    <3>1. PICK l : EndSlot(backoff, l)
      BY <2>1 DEF SkipSlot, IdleSlot, RxEnd
    <3>2. QED BY <1>3, <3>1, EndSlotTypes
  <2>2. CASE StartTx \/ StartRx
    <3>1. /\ UNCHANGED <<tsch_is_associated, asn, backoff>> /\ current_link' = LinkOfSlot
          /\ current_link # NULL
      BY <2>2 DEF StartTx, StartRx, Runs, RunsAnyway
    <3>2. QED BY <1>3, <3>1, LinkOfSlotOk DEF LinksOk
  <2>3. CASE RxFrame
    BY <1>3, <2>3 DEF RxFrame, LinksOk
  <2>4. ASSUME NEW status \in Status, TxEnd(status)
        PROVE  BackoffOk(backoff') /\ LinksOk' /\ tsch_is_associated' \in BOOLEAN
    <3>1. slot.n \in Addr
      BY <2>4, SlotShape DEF TxEnd, PacketInv
    <3> DEFINE n == slot.n
    <3>2. PICK rest : \E b \in Backoffs(n, status, rest) :
                         EndSlot([backoff EXCEPT ![n] = b], current_link)
      BY <2>4 DEF TxEnd
    <3>8. PICK b \in Backoffs(n, status, rest) : EndSlot([backoff EXCEPT ![n] = b], current_link)
      BY <3>2
    <3>3. backoff[n] \in [window: Nat, exponent: MinBE..MaxBE]
          /\ backoff[n].window \in {0} \cup 1..2^backoff[n].exponent
      BY <3>1 DEF BackoffOk
    <3>4. b = backoff[n] \/ b = NoBackoff \/ b \in Inc(backoff[n])
      BY <3>8 DEF Backoffs
    <3> HIDE DEF n
    <3>5. b \in [window: Nat, exponent: MinBE..MaxBE] /\ b.window \in {0} \cup 1..2^b.exponent
      BY <3>3, <3>4, NoBackoffOk, IncOk
    <3>6. BackoffOk([backoff EXCEPT ![n] = b])
      BY <3>1, <3>5, SetBackoff DEF n
    <3>7. QED BY <1>3, <3>8, <3>6, EndSlotTypes
  <2>5. QED BY <2>1, <2>2, <2>3, <2>4 DEF Slot
<1>5. SourcesOk'
  BY DEF Slot, SkipSlot, IdleSlot, StartTx, StartRx, RxFrame, RxEnd, TxEnd, SlotStep, SourcesOk
<1>6. QED BY <1>1, <1>2, <1>4, <1>5 DEF Flags

LEMMA CallTypes ==
  ASSUME Slow, NEW do, NEW a, Call(do, a), do \in {"source", "join"} => a \in Unicast
  PROVE  Slow'
<1>1. /\ UNCHANGED <<lockvars, nbrvars, ringvars, slotvars, scanning>>
      /\ op'.job.do = do /\ op'.job.addr = a
  BY DEF Call
<1>2. SourcesOk'
  BY <1>1 DEF SourcesOk
<1>3. QED BY <1>1, <1>2 DEF Slow, Flags, LinksOk, lockvars, nbrvars, ringvars, slotvars

LEMMA UsersTypes ==
  ASSUME Slow, Users
  PROVE  Slow'
<1>1. CASE \E a \in Receivers : SendPacket(a)
  BY <1>1, CallTypes DEF SendPacket
<1>2. CASE SendEB
  BY <1>2, CallTypes DEF SendEB
<1>3. ASSUME NEW a \in Parents, UpdateTimeSource(a) \/ TschAssociate(a) PROVE Slow'
  <2>1. a \in Unicast
    BY TschAssumption
  <2>2. QED BY <1>3, <2>1, CallTypes DEF UpdateTimeSource, TschAssociate
<1>4. QED BY <1>1, <1>2, <1>3 DEF Users

LEMMA CallsTypes ==
  ASSUME PacketInv, Slow,
         \/ RequestLock \/ TakeLock \/ AddNbr \/ RemoveNbr
         \/ \E p \in Packet : Accept(p)
         \/ Reject \/ SetHeader \/ SetTimeSource \/ JoinFails
         \/ \E k \in DOMAIN Slotframe : Join(k)
  PROVE  Slow'
<1> USE DEF Slow
<1>8. SourcesOk'
  <2>1. CASE op' = Idle \/ \E p \in Packet : op' = [at |-> "header", p |-> p]
    BY <2>1 DEF SourcesOk, Idle
  <2>2. CASE /\ op.at \in {"lock", "wait", "locked"}
             /\ \E at \in {"wait", "locked", "queue"} : op' = [op EXCEPT !.at = at]
    <3>1. op'.job = op.job
      BY <2>2, OpShape DEF PacketInv, Shapes
    <3>2. QED BY <2>2, <3>1 DEF SourcesOk
  <2>3. QED
    BY <2>1, <2>2 DEF RequestLock, TakeLock, AddNbr, RemoveNbr, Accept, Reject, SetHeader,
       SetTimeSource, JoinFails, Join
<1>1. CASE RequestLock \/ TakeLock
  BY <1>1, <1>8 DEF RequestLock, TakeLock, Flags, LinksOk, nbrvars, ringvars, slotvars
<1>2. CASE AddNbr
  <2>1. Len(neighbor_list') <= MaxNeighbors
    <3>1. neighbor_list \in Seq(Addr) /\ op.job.addr \in Addr
      BY <1>2, OpShape DEF PacketInv, Shapes, AddNbr, Job
    <3>2. CASE Len(neighbor_list) < MaxNeighbors
      <4>1. Len(neighbor_list') = Len(neighbor_list) + 1
        BY <1>2, <3>1, <3>2, AppendProperties DEF AddNbr
      <4>2. QED BY <3>1, <3>2, <4>1, TschAssumption
    <3>3. CASE ~(Len(neighbor_list) < MaxNeighbors)
      BY <1>2, <3>3 DEF AddNbr
    <3>4. QED BY <3>2, <3>3
  <2>2. QED BY <1>2, <1>8, <2>1 DEF AddNbr, Unlock, Flags, LinksOk, ringvars, slotvars
<1>3. CASE RemoveNbr
  <2>1. neighbor_list \in Seq(Addr) /\ op.job.addr \in Addr
    BY <1>3, OpShape DEF PacketInv, Shapes, RemoveNbr, Job
  <2>2. Len(neighbor_list') <= MaxNeighbors
    <3>1. Len(RemoveFirst(neighbor_list, op.job.addr)) <= Len(neighbor_list)
      BY <2>1, RemoveFirstShortens
    <3>2. /\ Len(neighbor_list) \in Nat
          /\ RemoveFirst(neighbor_list, op.job.addr) \in Seq(Addr)
      BY <2>1, OthersStay
    <3>3. QED BY <1>3, <3>1, <3>2, TschAssumption DEF RemoveNbr
  <2>3. BackoffOk(backoff')
    BY <1>3, <2>1, SetBackoff, NoBackoffOk DEF RemoveNbr
  <2>4. QED BY <1>3, <1>8, <2>2, <2>3 DEF RemoveNbr, Unlock, Flags, LinksOk, ringvars, slotvars
<1>4. CASE (\E p \in Packet : Accept(p)) \/ Reject \/ SetHeader \/ JoinFails
  BY <1>4, <1>8 DEF Accept, Reject, SetHeader, JoinFails, Flags, LinksOk, lockvars, nbrvars,
     ringvars, slotvars
<1>5. CASE SetTimeSource
  <2>1. op.job.addr \in Unicast
    BY <1>5 DEF SetTimeSource, SourcesOk
  <2>2. QED
    BY <1>5, <1>8, <2>1 DEF SetTimeSource, Flags, LinksOk, lockvars, ringvars, slotvars
<1>6. CASE \E k \in DOMAIN Slotframe : Join(k)
  <2>1. PICK k \in DOMAIN Slotframe : Join(k)
    BY <1>6
  <2>2. op.job.addr \in Unicast
    BY <2>1 DEF Join, SourcesOk
  <2>3. QED BY <1>8, <2>1, <2>2, LinksAreLinks DEF Join, Flags, LinksOk, lockvars, ringvars
<1>7. QED BY <1>1, <1>2, <1>3, <1>4, <1>5, <1>6

LEMMA WalkTypes ==
  ASSUME PacketInv, Slow,
         \/ PendingEvents \/ TschProcess \/ RxProcessPending \/ InputReturns
         \/ TxProcessPending \/ SentReturns \/ Sweep \/ SweepDone
         \/ FlushNbrQueue \/ FlushedReturns \/ FlushDone \/ ResetDone
  PROVE  Slow'
<1> USE DEF Slow
<1>1. CASE Sweep
  <2>1. CASE Call("remove", Head(main.todo))
    BY <2>1, CallTypes
  <2>2. CASE UNCHANGED <<op, lockvars, nbrvars, ringvars, slotvars, scanning>>
    BY <2>2 DEF Flags, LinksOk, SourcesOk, lockvars, nbrvars, ringvars, slotvars
  <2>3. QED BY <1>1, <2>1, <2>2 DEF Sweep
<1>2. ASSUME MainStep PROVE SourcesOk' /\ UNCHANGED <<lockvars, neighbor_list, tsch_is_associated, asn>>
  BY <1>2 DEF MainStep, SourcesOk
<1>3. CASE \/ PendingEvents \/ TschProcess \/ RxProcessPending \/ InputReturns
           \/ TxProcessPending \/ SentReturns \/ SweepDone \/ FlushedReturns \/ FlushDone
  <2>1. /\ MainStep /\ UNCHANGED <<backoff, time_source, current_link, scanning>>
        /\ polled' = polled \/ polled' = FALSE
    BY <1>3 DEF PendingEvents, TschProcess, RxProcessPending, InputReturns, TxProcessPending,
       SentReturns, SweepDone, FlushedReturns, FlushDone, ringvars
  <2>2. QED BY <1>2, <2>1 DEF Flags, LinksOk, lockvars
<1>4. CASE FlushNbrQueue
  <2>1. Head(main.todo) \in Addr
    <3>1. main.todo \in Seq(Addr) /\ main.todo # <<>>
      BY <1>4, MainShape DEF PacketInv, FlushNbrQueue, Busy
    <3>2. QED BY <3>1, HeadTailProperties
  <2>2. BackoffOk(backoff')
    BY <1>4, <2>1, SetBackoff, NoBackoffOk DEF FlushNbrQueue
  <2>3. MainStep /\ UNCHANGED <<time_source, current_link, scanning, polled>>
    BY <1>4 DEF FlushNbrQueue, ringvars
  <2>4. QED BY <1>2, <2>2, <2>3 DEF Flags, LinksOk, lockvars
<1>5. CASE ResetDone
  <2>1. /\ MainStep /\ time_source' = NULL /\ current_link' = NULL /\ scanning' = TRUE
        /\ UNCHANGED <<backoff, polled>>
    BY <1>5 DEF ResetDone, ringvars
  <2>2. QED BY <1>2, <2>1 DEF Flags, LinksOk, lockvars
<1>6. QED BY <1>1, <1>3, <1>4, <1>5

LEMMA TriesStay ==
  ASSUME PacketInv, TriesOk,
         \A p \in Packet : packet'[p] # NULL => packet'[p] = packet[p],
         \A a \in Addr : Queued(a)' \subseteq Queued(a)
  PROVE  TriesOk'
<1>1. ASSUME NEW p \in Packet, packet'[p] # NULL
      PROVE  /\ packet'[p].transmissions <= MaxRetries + 1
             /\ p \in Queued(packet[p].addr)' => packet'[p].transmissions <= MaxRetries
  <2>1. packet'[p] = packet[p] /\ packet[p].addr \in Addr
    BY <1>1 DEF PacketInv, Shapes, Contents
  <2>2. QED BY <1>1, <2>1 DEF TriesOk
<1>2. QED BY <1>1 DEF TriesOk

LEMMA TxEndTries ==
  ASSUME PacketInv, TriesOk, NEW status \in Status, TxEnd(status)
  PROVE  TriesOk'
<1> DEFINE n == slot.n
           p == slot.p
           tries == packet[p].transmissions + 1
           leaves == status = "OK" \/ tries >= MaxRetries + 1
           s == tx_ringbuf[n]
           rest == IF leaves THEN DropHead(s) ELSE s
<1>1. /\ packet' = [packet EXCEPT ![p].transmissions = tries, ![p].ret = status]
      /\ tx_ringbuf' = [tx_ringbuf EXCEPT ![n] = rest]
  BY DEF TxEnd
<1>2. n \in Addr /\ p \in Packet
  BY SlotShape DEF PacketInv, TxEnd
<1>3. s # <<>> /\ Head(s) = p /\ packet[p] # NULL /\ packet[p].addr = n
  BY DEF PacketInv, SlotKeepsItsPacket, TxEnd
<1> HIDE DEF n, p
<1>4. /\ s \in Seq(Packet) /\ Distinct(s) /\ packet[p] \in Contents
      /\ tx_ringbuf \in [Addr -> Seq(Packet)] /\ packet \in [Packet -> Contents \cup {NULL}]
  BY <1>2, <1>3 DEF PacketInv, Shapes, Apart
<1>5. p \in Range(s) /\ Range(Tail(s)) = Range(s) \ {p}
  BY <1>3, <1>4, HeadLeaves
<1>6. /\ packet[p].transmissions \in Nat /\ packet[p].transmissions <= MaxRetries
      /\ tries \in Nat /\ tries <= MaxRetries + 1
  BY <1>2, <1>3, <1>4, <1>5, TschAssumption DEF TriesOk, Queued, Contents
<1>7. packet'[p].transmissions = tries /\ packet'[p].addr = n
  BY <1>1, <1>2, <1>3, <1>4 DEF Contents
<1>8. \A q \in Packet \ {p} : packet'[q] = packet[q]
  BY <1>1, <1>4
<1>9. leaves => Range(rest) = Range(s) \ {p}
  BY <1>3, <1>5 DEF DropHead
<1>10. \A b \in Addr : Queued(b)' = IF b = n THEN Range(rest) ELSE Queued(b)
  BY <1>1, <1>2, <1>4 DEF Queued
<1>11. Range(rest) \subseteq Range(s)
  BY <1>9
<1> HIDE DEF s, rest, tries, leaves
<1>12. p \in Range(tx_ringbuf'[n]) => tries <= MaxRetries
  <2>1. Range(tx_ringbuf'[n]) = Range(rest)
    BY <1>2, <1>10 DEF Queued
  <2>2. p \in Range(tx_ringbuf'[n]) => ~leaves
    BY <1>9, <2>1
  <2>3. ~leaves => tries <= MaxRetries
    BY <1>6, TschAssumption DEF leaves
  <2>4. QED BY <2>2, <2>3
<1>13. ASSUME NEW q \in Packet, packet'[q] # NULL
       PROVE  /\ packet'[q].transmissions <= MaxRetries + 1
              /\ q \in Range(tx_ringbuf'[packet'[q].addr]) => packet'[q].transmissions <= MaxRetries
  <2>1. CASE q = p
    BY <1>6, <1>7, <1>12, <2>1
  <2>2. CASE q # p
    <3>1. packet'[q] = packet[q] /\ packet[q].addr \in Addr
      BY <1>8, <1>13, <2>2 DEF PacketInv, Shapes, Contents
    <3>2. \A b \in Addr : Queued(b)' \subseteq Queued(b)
      BY <1>10, <1>11 DEF Queued, s
    <3>3. QED BY <1>13, <3>1, <3>2 DEF TriesOk, Queued
  <2>3. QED BY <2>1, <2>2
<1>14. QED BY <1>13 DEF TriesOk, Queued

LEMMA AcceptTries ==
  ASSUME PacketInv, TriesOk, NEW p \in Packet, Accept(p)
  PROVE  TriesOk'
<1> DEFINE a == op.job.addr
<1>1. /\ packet[p] = NULL
      /\ packet' = [packet EXCEPT ![p] = [addr |-> a, transmissions |-> 0, ret |-> "ERR"]]
      /\ tx_ringbuf' = [tx_ringbuf EXCEPT ![a] = Append(@, p)]
  BY DEF Accept
<1>2. a \in Addr
  BY OpShape DEF PacketInv, Accept, Job
<1> HIDE DEF a
<1>3. packet'[p].transmissions = 0 /\ \A q \in Packet \ {p} : packet'[q] = packet[q]
  BY <1>1 DEF PacketInv, Shapes
<1>4. /\ tx_ringbuf[a] \in Seq(Packet) /\ Distinct(tx_ringbuf[a])
      /\ tx_ringbuf \in [Addr -> Seq(Packet)] /\ p \notin Range(tx_ringbuf[a])
  BY <1>1, <1>2 DEF PacketInv, Shapes, Apart, TakenArePlaced, Queued
<1>5. Range(Append(tx_ringbuf[a], p)) = Range(tx_ringbuf[a]) \cup {p}
  BY <1>4, AppendKeeps
<1>6. \A b \in Addr : Queued(b)' \subseteq Queued(b) \cup {p}
  BY <1>1, <1>2, <1>4, <1>5 DEF Queued
<1>7. ASSUME NEW q \in Packet, packet'[q] # NULL
      PROVE  /\ packet'[q].transmissions <= MaxRetries + 1
             /\ q \in Range(tx_ringbuf'[packet'[q].addr]) => packet'[q].transmissions <= MaxRetries
  <2>1. CASE q = p
    BY <1>3, <2>1, TschAssumption
  <2>2. CASE q # p
    <3>1. packet'[q] = packet[q] /\ packet[q].addr \in Addr
      BY <1>3, <1>7, <2>2 DEF PacketInv, Shapes, Contents
    <3>2. QED BY <1>6, <1>7, <2>2, <3>1 DEF TriesOk, Queued
  <2>3. QED BY <2>1, <2>2
<1>8. QED BY <1>7 DEF TriesOk, Queued

LEMMA StepTries ==
  ASSUME PacketInv, TriesOk, TschNext
  PROVE  TriesOk'
<1>1. CASE UNCHANGED <<packet, tx_ringbuf>>
  BY <1>1, TriesStay DEF Queued
<1>2. CASE FlushNbrQueue /\ tx_ringbuf[Head(main.todo)] # <<>>
  <2> DEFINE a == Head(main.todo)
  <2>1. /\ UNCHANGED packet /\ tx_ringbuf' = [tx_ringbuf EXCEPT ![a] = Tail(@)]
        /\ tx_ringbuf[a] # <<>>
    BY <1>2 DEF FlushNbrQueue
  <2>2. ASSUME NEW b \in Addr PROVE Queued(b)' \subseteq Queued(b)
    <3>1. tx_ringbuf[b] \in Seq(Packet) /\ Distinct(tx_ringbuf[b])
          /\ tx_ringbuf \in [Addr -> Seq(Packet)]
      BY DEF PacketInv, Shapes, Apart
    <3>2. tx_ringbuf[b] # <<>> => Range(Tail(tx_ringbuf[b])) \subseteq Range(tx_ringbuf[b])
      BY <3>1, HeadLeaves
    <3>3. QED BY <2>1, <3>1, <3>2 DEF Queued
  <2>3. QED BY <2>1, <2>2, TriesStay
<1>3. CASE SentReturns \/ FlushedReturns
  <2>1. packet' = [packet EXCEPT ![main.p] = NULL] /\ UNCHANGED tx_ringbuf
    BY <1>3 DEF SentReturns, FlushedReturns
  <2>2. \A p \in Packet : packet'[p] # NULL => packet'[p] = packet[p]
    BY <2>1 DEF PacketInv, Shapes
  <2>3. QED BY <2>1, <2>2, TriesStay DEF Queued
<1>4. CASE Slot
  BY <1>1, <1>4, TxEndTries DEF Slot, SkipSlot, IdleSlot, StartTx, StartRx, RxFrame, RxEnd
<1>5. CASE Users
  BY <1>1, <1>5 DEF Users, SendPacket, SendEB, UpdateTimeSource, TschAssociate, Call, nbrvars
<1>6. CASE \/ RequestLock \/ TakeLock \/ AddNbr \/ RemoveNbr
           \/ Reject \/ SetHeader \/ SetTimeSource \/ JoinFails
           \/ \E k \in DOMAIN Slotframe : Join(k)
  BY <1>1, <1>6 DEF RequestLock, TakeLock, AddNbr, RemoveNbr, Reject, SetHeader, SetTimeSource,
     JoinFails, Join, nbrvars
<1>7. CASE \/ PendingEvents \/ TschProcess \/ RxProcessPending \/ InputReturns
           \/ TxProcessPending \/ Sweep \/ SweepDone \/ FlushDone \/ ResetDone
  BY <1>1, <1>7 DEF PendingEvents, TschProcess, RxProcessPending, InputReturns, TxProcessPending,
     Sweep, SweepDone, FlushDone, ResetDone, Call, nbrvars
<1>8. CASE FlushNbrQueue /\ tx_ringbuf[Head(main.todo)] = <<>>
  BY <1>1, <1>8 DEF FlushNbrQueue
<1>9. CASE \E p \in Packet : Accept(p)
  BY <1>9, AcceptTries
<1>10. QED BY <1>2, <1>3, <1>4, <1>5, <1>6, <1>7, <1>8, <1>9 DEF TschNext, Main

LEMMA InitTypes == TschInit => Slow /\ TriesOk
<1> SUFFICES ASSUME TschInit PROVE Slow /\ TriesOk
  OBVIOUS
<1>1. Len(neighbor_list) <= MaxNeighbors
  <2> DEFINE U == {a \in Unicast : TxLinksCount(a) > 0}
  <2>1. PICK s \in SetToSeqs(U) : neighbor_list = <<EB, BC>> \o s
    BY DEF TschInit
  <2>2. IsFiniteSet(U)
    BY TschAssumption, FS_Subset
  <2>3. Cardinality(U) \in Nat /\ Cardinality(U) + 2 <= MaxNeighbors
    BY <2>2, TschAssumption, FS_CardinalityType
  <2>4. s \in [1..Cardinality(U) -> U]
    BY <2>1 DEF SetToSeqs
  <2> HIDE DEF U
  <2>5. s \in Seq(U) /\ Len(s) = Cardinality(U)
    BY <2>3, <2>4
  <2>6. Len(<<EB, BC>> \o s) = 2 + Len(s)
    BY <2>5
  <2>7. QED BY <2>1, <2>3, <2>5, <2>6
<1>2. BackoffOk(backoff)
  BY NoBackoffOk DEF TschInit, BackoffOk
<1>3. LinksOk
  <2>1. 1 \in DOMAIN Slotframe
    <3>1. Len(Slotframe) \in Nat \ {0} /\ DOMAIN Slotframe = 1..Len(Slotframe)
      BY TschAssumption, EmptySeq
    <3>2. QED BY <3>1
  <2>2. QED BY <2>1 DEF TschInit, LinksOk
<1>4. Flags \subseteq BOOLEAN /\ time_source = NULL /\ SourcesOk /\ TriesOk
  BY DEF TschInit, Flags, SourcesOk, Idle, TriesOk
<1>5. QED BY <1>1, <1>2, <1>3, <1>4 DEF Slow

(* Every variable keeps its type.  A packet is not sent more often than    *)
(* MaxRetries allows, the window of a backoff stays within its exponent    *)
(* and the exponent within MaxBE, no queue and no ring exceeds its array,  *)
(* and no address that is not a neighbour's becomes the time source.       *)
THEOREM TschTypes == TschSpec => []TschTypeOK
<1>1. TschInit => Slow /\ TriesOk
  BY InitTypes
<1>2. PacketInv /\ Slow /\ TriesOk /\ [TschNext]_vars => Slow' /\ TriesOk'
  <2>1. ASSUME PacketInv, Slow, TriesOk, TschNext PROVE Slow' /\ TriesOk'
    <3>1. Slow'
      <4>1. CASE Slot
        BY <2>1, <4>1, SlotTypes
      <4>2. CASE Main
        BY <2>1, <4>2, CallsTypes, WalkTypes DEF Main
      <4>3. CASE Users
        BY <2>1, <4>3, UsersTypes
      <4>4. QED BY <2>1, <4>1, <4>2, <4>3 DEF TschNext
    <3>2. QED BY <2>1, <3>1, StepTries
  <2>2. ASSUME PacketInv, Slow, TriesOk, UNCHANGED vars PROVE Slow' /\ TriesOk'
    <3>1. Slow'
      BY <2>2 DEF Slow, Flags, LinksOk, SourcesOk, vars, lockvars, nbrvars, ringvars, slotvars
    <3>2. TriesOk'
      BY <2>2, TriesStay DEF vars, nbrvars, Queued
    <3>3. QED BY <3>1, <3>2
  <2>3. QED BY <2>1, <2>2
<1>3. InputInv /\ PacketInv /\ Slow /\ TriesOk => TschTypeOK
  BY TypesFollow DEF Slow
<1>4. QED BY <1>1, <1>2, <1>3, PacketsInvariant, PTL DEF TschSpec

----------------------------------------------------------------------------
(* TSCH implements MacService *)

\* What the function of Only is like.
Keeps(f, s, S) ==
  /\ f[0] = <<>>
  /\ \A n \in 1..Len(s) : f[n] = IF s[n] \in S THEN Append(f[n - 1], s[n]) ELSE f[n - 1]

LEMMA OnlyKeeps ==
  ASSUME NEW P, NEW s \in Seq(P), NEW S
  PROVE  \E f : /\ f \in [0..Len(s) -> Seq(P)] /\ Keeps(f, s, S)
                /\ Only(s, S) = f[Len(s)]
<1> DEFINE N == Len(s)
           Step(y, n) == IF s[n] \in S THEN Append(y, s[n]) ELSE y
           E(f) == f = [n \in 0..N |-> IF n = 0 THEN <<>>
                                       ELSE IF s[n] \in S THEN Append(f[n - 1], s[n])
                                       ELSE f[n - 1]]
           kept == CHOOSE f : E(f)
<1>1. Only(s, S) = kept[N]
  BY DEF Only
<1>2. N \in Nat /\ \A n \in 1..N : s[n] \in P
  OBVIOUS
<1>3. \A n \in 1..N : \A y \in Seq(P) : Step(y, n) \in Seq(P)
  BY <1>2
<1>4. PICK SS, G : /\ SS = [n \in 0..N |-> Seq(P)]
                   /\ G = [n \in 1..N |-> [y \in Seq(P) |-> Step(y, n)]]
  OBVIOUS
<1>5. PICK f : E(f) /\ f \in [0..N -> Seq(P)]
  <2>1. <<>> \in Seq(P)
    OBVIOUS
  <2> DEFINE Q == Seq(P)
  <2> HIDE DEF Step, N, Q
  <2>2. SS \in [0..N -> SUBSET Q] /\ <<>> \in SS[0]
    BY <1>2, <1>4, <2>1 DEF Q
  <2>3. \A n \in 1..N : \A y \in Q : G[n][y] = Step(y, n)
    BY <1>4 DEF Q
  <2>4. \A n \in 1..N : \A y \in SS[n - 1] : G[n][y] \in SS[n]
    BY <1>2, <1>3, <1>4, <2>3 DEF Q
  <2>5. PICK f : LoopRun(f, N, Q, SS, <<>>, G)
    <3>1. Loop(N, Q, SS, <<>>, G)
      BY <1>2, <2>2, <2>4 DEF Loop
    <3> QED BY <3>1, LoopRuns
  <2>6. f \in [0..N -> Q] /\ f[0] = <<>> /\ \A n \in 1..N : f[n] = G[n][f[n - 1]]
    BY <2>5 DEF LoopRun
  <2>7. \A n \in 1..N : f[n] = Step(f[n - 1], n)
    BY <1>2, <2>3, <2>6
  <2>8. f = [n \in 0..N |-> IF n = 0 THEN <<>> ELSE Step(f[n - 1], n)]
    BY <1>2, <2>6, <2>7
  <2> QED BY <2>6, <2>8 DEF Step, Q
<1>6. E(kept)
  <2> HIDE DEF E
  <2> QED BY <1>5
<1>7. Keeps(kept, s, S) /\ DOMAIN kept = 0..N /\ kept = [n \in 0..N |-> kept[n]]
  <2> HIDE DEF kept
  <2>1. DOMAIN kept = 0..N /\ kept = [n \in 0..N |-> kept[n]]
    BY <1>6
  <2>2. kept[0] = <<>>
    BY <1>2, <1>6
  <2>3. ASSUME NEW n \in 1..N
        PROVE  kept[n] = IF s[n] \in S THEN Append(kept[n - 1], s[n]) ELSE kept[n - 1]
    <3>1. n \in 0..N /\ n # 0
      BY <1>2
    <3> HIDE DEF N
    <3> QED BY <1>6, <3>1
  <2> QED BY <2>1, <2>2, <2>3 DEF Keeps
<1>8. \A n \in 0..N : kept[n] \in SS[n]
  <2> HIDE DEF kept
  <2>1. kept[0] \in SS[0]
    BY <1>2, <1>4, <1>7 DEF Keeps
  <2>2. \A n \in 1..N : kept[n - 1] \in SS[n - 1] => kept[n] \in SS[n]
    <3> TAKE n \in 1..N
    <3>1. n \in 0..N /\ n - 1 \in 0..N
      BY <1>2
    <3>2. kept[n] = Step(kept[n - 1], n)
      BY <1>7 DEF Keeps
    <3> HIDE DEF Step, N
    <3> QED BY <1>3, <1>4, <3>1, <3>2
  <2> HIDE DEF N
  <2> QED BY <1>2, <2>1, <2>2, LoopStays
<1> HIDE DEF kept, N
<1>9. kept \in [0..N -> Seq(P)]
  BY <1>4, <1>7, <1>8
<1> QED BY <1>1, <1>7, <1>9 DEF N

LEMMA OnlyIsSeq ==
  ASSUME NEW P, NEW s \in Seq(P), NEW S
  PROVE  Only(s, S) \in Seq(P)
<1>1. PICK f : f \in [0..Len(s) -> Seq(P)] /\ Only(s, S) = f[Len(s)]
  BY OnlyKeeps
<1> QED BY <1>1

LEMMA OnlyOfNothing == ASSUME NEW S PROVE Only(<<>>, S) = <<>>
<1>1. <<>> \in Seq({}) /\ Len(<<>>) = 0
  OBVIOUS
<1>2. PICK f : Keeps(f, <<>>, S) /\ Only(<<>>, S) = f[Len(<<>>)]
  BY <1>1, OnlyKeeps
<1> QED BY <1>1, <1>2 DEF Keeps

\* Where the two sequences and the two sets agree, so do what is kept of them.
LEMMA SamePrefix ==
  ASSUME NEW n \in Nat, NEW f, NEW s, NEW S, NEW g, NEW t, NEW T,
         Keeps(f, s, S), Keeps(g, t, T), n \in 0..Len(s), n \in 0..Len(t),
         Len(s) \in Nat, Len(t) \in Nat,
         \A k \in 1..n : s[k] = t[k] /\ (s[k] \in S <=> t[k] \in T)
  PROVE  f[n] = g[n]
<1>1. PICK A : A = [k \in 0..n |-> {g[k]}]
  OBVIOUS
<1>2. f[0] \in A[0]
  BY <1>1 DEF Keeps
<1>3. ASSUME NEW k \in 1..n, f[k - 1] \in A[k - 1]
      PROVE  f[k] \in A[k]
  <2>1. k \in 1..Len(s) /\ k \in 1..Len(t) /\ k \in 0..n /\ k - 1 \in 0..n
    OBVIOUS
  <2>2. f[k - 1] = g[k - 1]
    BY <1>1, <1>3, <2>1
  <2>3. f[k] = g[k]
    BY <2>1, <2>2 DEF Keeps
  <2> QED BY <1>1, <2>1, <2>3
<1>4. \A k \in 0..n : f[k] \in A[k]
  BY <1>2, <1>3, LoopStays
<1> QED BY <1>1, <1>4

LEMMA OnlyAgrees ==
  ASSUME NEW P, NEW s \in Seq(P), NEW S, NEW T,
         \A x \in Range(s) : x \in S <=> x \in T
  PROVE  Only(s, S) = Only(s, T)
<1>1. PICK f : Keeps(f, s, S) /\ Only(s, S) = f[Len(s)]
  BY OnlyKeeps
<1>2. PICK g : Keeps(g, s, T) /\ Only(s, T) = g[Len(s)]
  BY OnlyKeeps
<1>3. Len(s) \in Nat /\ \A k \in 1..Len(s) : s[k] \in S <=> s[k] \in T
  BY DEF Range
<1>4. f[Len(s)] = g[Len(s)]
  BY <1>1, <1>2, <1>3, SamePrefix
<1> QED BY <1>1, <1>2, <1>4

LEMMA OnlyOfAppend ==
  ASSUME NEW P, NEW s \in Seq(P), NEW x \in P, NEW S
  PROVE  Only(Append(s, x), S) = IF x \in S THEN Append(Only(s, S), x) ELSE Only(s, S)
<1> DEFINE t == Append(s, x)
           n == Len(s)
<1>1. /\ t \in Seq(P) /\ Len(t) = n + 1 /\ n \in Nat /\ t[n + 1] = x
      /\ \A k \in 1..n : t[k] = s[k]
  OBVIOUS
<1> HIDE DEF t
<1>2. PICK f : Keeps(f, s, S) /\ Only(s, S) = f[Len(s)]
  BY OnlyKeeps
<1>3. PICK g : Keeps(g, t, S) /\ Only(t, S) = g[Len(t)]
  BY <1>1, OnlyKeeps
<1> HIDE DEF n
<1>4. f[n] = g[n]
  BY <1>1, <1>2, <1>3, SamePrefix DEF n
<1>5. g[n + 1] = IF t[n + 1] \in S THEN Append(g[(n + 1) - 1], t[n + 1]) ELSE g[(n + 1) - 1]
  <2>1. n + 1 \in 1..Len(t)
    BY <1>1
  <2> QED BY <1>3, <2>1 DEF Keeps
<1>6. (n + 1) - 1 = n
  BY <1>1
<1> QED BY <1>1, <1>2, <1>3, <1>4, <1>5, <1>6 DEF t, n

LEMMA OnlyOfTail ==
  ASSUME NEW P, NEW s \in Seq(P), s # <<>>, NEW S
  PROVE  Only(s, S) = IF Head(s) \in S THEN <<Head(s)>> \o Only(Tail(s), S)
                      ELSE Only(Tail(s), S)
<1> DEFINE t == Tail(s)
           h == IF Head(s) \in S THEN <<Head(s)>> ELSE <<>>
<1>1. /\ t \in Seq(P) /\ Len(s) = Len(t) + 1 /\ Len(t) \in Nat /\ Head(s) = s[1] /\ Head(s) \in P
      /\ \A k \in 1..Len(t) : t[k] = s[k + 1]
  BY HeadTailProperties
<1>2. h \in Seq(P)
  BY <1>1
<1> HIDE DEF t
<1>3. PICK f : Keeps(f, s, S) /\ Only(s, S) = f[Len(s)]
  BY OnlyKeeps
<1>4. PICK g : g \in [0..Len(t) -> Seq(P)] /\ Keeps(g, t, S) /\ Only(t, S) = g[Len(t)]
  BY <1>1, OnlyKeeps
<1>5. PICK A, r : /\ A = [k \in 0..Len(t) |-> {h \o g[k]}]
                  /\ r = [k \in 0..Len(t) |-> f[k + 1]]
  OBVIOUS
<1>6. r[0] \in A[0]
  <2>1. f[1] = IF s[1] \in S THEN Append(f[1 - 1], s[1]) ELSE f[1 - 1]
    <3>1. 1 \in 1..Len(s)
      BY <1>1
    <3> QED BY <1>3, <3>1 DEF Keeps
  <2>2. f[1 - 1] = <<>> /\ g[0] = <<>>
    BY <1>3, <1>4 DEF Keeps
  <2>3. f[1] = h
    BY <1>1, <2>1, <2>2
  <2>4. h \o g[0] = h
    BY <1>2, <2>2
  <2>5. 0 \in 0..Len(t) /\ 0 + 1 = 1
    BY <1>1
  <2> QED BY <1>5, <2>3, <2>4, <2>5
<1> HIDE DEF h
<1>7. ASSUME NEW k \in 1..Len(t), r[k - 1] \in A[k - 1]
      PROVE  r[k] \in A[k]
  <2>1. /\ k \in 0..Len(t) /\ k - 1 \in 0..Len(t) /\ (k - 1) + 1 = k
        /\ k + 1 \in 1..Len(s) /\ (k + 1) - 1 = k
    BY <1>1
  <2>2. f[k] = h \o g[k - 1]
    BY <1>5, <1>7, <2>1
  <2>3. f[k + 1] = IF t[k] \in S THEN Append(f[k], t[k]) ELSE f[k]
    BY <1>1, <1>3, <2>1 DEF Keeps
  <2>4. g[k] = IF t[k] \in S THEN Append(g[k - 1], t[k]) ELSE g[k - 1]
    BY <1>4 DEF Keeps
  <2>5. g[k - 1] \in Seq(P) /\ t[k] \in P
    BY <1>1, <1>4, <2>1
  <2>6. Append(h \o g[k - 1], t[k]) = h \o Append(g[k - 1], t[k])
    <3>1. PICK v, w, x : v = h /\ w = g[k - 1] /\ x = t[k]
      OBVIOUS
    <3>2. v \in Seq(P) /\ w \in Seq(P) /\ x \in P
      BY <1>2, <2>5, <3>1
    <3>3. Append(v \o w, x) = v \o Append(w, x)
      BY <3>2, SMTT(60)
    <3> QED BY <3>1, <3>3
  <2>7. f[k + 1] = h \o g[k]
    BY <2>2, <2>3, <2>4, <2>6
  <2> QED BY <1>5, <2>1, <2>7
<1>8. \A k \in 0..Len(t) : r[k] \in A[k]
  BY <1>1, <1>6, <1>7, LoopStays
<1>9. Len(t) \in 0..Len(t)
  BY <1>1
<1>10. f[Len(s)] = h \o g[Len(t)]
  BY <1>1, <1>5, <1>8, <1>9
<1>11. g[Len(t)] \in Seq(P)
  BY <1>4, <1>9
<1>12. <<>> \o g[Len(t)] = g[Len(t)]
  BY <1>11
<1> QED BY <1>3, <1>4, <1>10, <1>12 DEF t, h

\* What is accepted and not answered is a list of packets.
LEMMA AcceptedIsSeq ==
  ASSUME PacketInv, NEW a \in Addr
  PROVE  /\ Unanswered \in Seq(Packet) /\ Only(Unanswered, PacketsTo(a)) \in Seq(Packet)
         /\ tx_ringbuf[a] \in Seq(Packet) /\ AcceptedFor(a) \in Seq(Packet)
<1>1. dequeued \in Seq(Packet) /\ tx_ringbuf[a] \in Seq(Packet)
  BY DEF PacketInv, Shapes
<1>2. main.at \in {"sent", "sweep"} => dequeued # <<>>
  BY DEF PacketInv, Positions
<1>3. Unanswered \in Seq(Packet)
  BY <1>1, <1>2, HeadTailProperties DEF Unanswered
<1>4. Only(Unanswered, PacketsTo(a)) \in Seq(Packet)
  BY <1>3, OnlyIsSeq
<1> QED BY <1>1, <1>3, <1>4, ConcatProperties DEF AcceptedFor

LEMMA LettersOfTail ==
  ASSUME NEW P, NEW s \in Seq(P), s # <<>>
  PROVE  LET t == Letters(s) IN
         /\ DOMAIN t = DOMAIN s /\ 1 \in DOMAIN t
         /\ t[1] = LetterOf(Head(s)) /\ t[1].ack = FALSE
         /\ Letters(Tail(s)) = SubSeq(t, 1, 1 - 1) \o SubSeq(t, 1 + 1, Len(t))
<1> DEFINE t == Letters(s)
           n == Len(s)
           u == Letters(Tail(s))
           v == SubSeq(t, 2, n)
<1>1. /\ n \in Nat /\ n # 0 /\ DOMAIN s = 1..n /\ Head(s) = s[1]
      /\ Len(Tail(s)) = n - 1 /\ Tail(s) \in Seq(P) /\ DOMAIN Tail(s) = 1..(n - 1)
      /\ \A i \in 1..(n - 1) : Tail(s)[i] = s[i + 1]
  BY HeadTailProperties
<1>2. DOMAIN t = 1..n /\ \A i \in 1..n : t[i] = LetterOf(s[i])
  BY <1>1 DEF Letters
<1>3. u = [i \in 1..(n - 1) |-> LetterOf(s[i + 1])]
  BY <1>1 DEF Letters
<1> HIDE DEF n, t
<1>4. PICK L : L = {LetterOf(x) : x \in P}
  OBVIOUS
<1>5. t \in Seq(L) /\ Len(t) = n
  <2>1. \A i \in 1..n : t[i] \in L
    BY <1>1, <1>2, <1>4
  <2>2. t = [i \in 1..n |-> t[i]]
    BY <1>2 DEF t, Letters
  <2>3. t \in [1..n -> L]
    BY <2>1, <2>2
  <2> QED BY <1>1, <2>3
<1>6. SubSeq(t, 1, 0) = <<>>
  BY <1>5
<1>7. v = [i \in 1..(n - 1) |-> t[i + 1]]
  BY <1>1, <1>5
<1>8. v = u
  <2>1. \A i \in 1..(n - 1) : i + 1 \in 1..n
    BY <1>1
  <2>2. \A i \in 1..(n - 1) : t[i + 1] = LetterOf(s[i + 1])
    BY <1>2, <2>1
  <2> QED BY <1>3, <1>7, <2>2
<1>9. v \in Seq(L)
  <2>1. \A i \in 1..(n - 1) : t[i + 1] \in L
    <3>1. \A i \in 1..(n - 1) : i + 1 \in 1..n
      BY <1>1
    <3> QED BY <1>1, <1>2, <1>4, <3>1
  <2> QED BY <1>1, <1>7, <2>1
<1> HIDE DEF u, v
<1>10. <<>> \o v = v
  BY <1>9
<1>11. 1 - 1 = 0 /\ 1 + 1 = 2 /\ 1 \in 1..n
  BY <1>1
<1> QED
  BY <1>1, <1>2, <1>5, <1>6, <1>8, <1>10, <1>11 DEF t, u, v, LetterOf

LEMMA LettersOfAppend ==
  ASSUME NEW P, NEW s \in Seq(P), NEW x \in P
  PROVE  Letters(Append(s, x)) = Append(Letters(s), LetterOf(x))
<1>1. /\ DOMAIN s = 1..Len(s) /\ Len(s) \in Nat
      /\ DOMAIN Append(s, x) = 1..(Len(s) + 1)
      /\ \A i \in 1..(Len(s) + 1) : Append(s, x)[i] = IF i = Len(s) + 1 THEN x ELSE s[i]
  OBVIOUS
<1>2. PICK L, t, y : L = {LetterOf(z) : z \in P} /\ t = Letters(s) /\ y = LetterOf(x)
  OBVIOUS
<1>3. DOMAIN t = 1..Len(s) /\ \A i \in 1..Len(s) : t[i] = LetterOf(s[i])
  BY <1>1, <1>2 DEF Letters
<1>4. t \in Seq(L) /\ Len(t) = Len(s) /\ y \in L
  <2>1. \A i \in 1..Len(s) : t[i] \in L
    BY <1>1, <1>2, <1>3
  <2>2. t = [i \in 1..Len(s) |-> t[i]]
    BY <1>1, <1>2, <1>3 DEF Letters
  <2> QED BY <1>1, <1>2, <2>1, <2>2
<1>5. Append(t, y) = [i \in 1..(Len(s) + 1) |-> IF i = Len(s) + 1 THEN y ELSE t[i]]
  <2>1. PICK r : r = Append(t, y)
    OBVIOUS
  <2>2. /\ r \in Seq(L) /\ Len(r) = Len(s) + 1 /\ r[Len(s) + 1] = y
        /\ \A i \in 1..Len(s) : r[i] = t[i]
    BY <1>4, <2>1, AppendProperties
  <2>3. r = [i \in 1..(Len(s) + 1) |-> r[i]]
    BY <1>1, <2>2
  <2>4. \A i \in 1..(Len(s) + 1) : i # Len(s) + 1 => i \in 1..Len(s)
    BY <1>1
  <2>5. \A i \in 1..(Len(s) + 1) : r[i] = IF i = Len(s) + 1 THEN y ELSE t[i]
    BY <2>2, <2>4
  <2> QED BY <2>1, <2>3, <2>5
<1>6. \A i \in 1..(Len(s) + 1) : i # Len(s) + 1 => i \in 1..Len(s)
  BY <1>1
<1>7. Letters(Append(s, x)) =
        [i \in 1..(Len(s) + 1) |-> IF i = Len(s) + 1 THEN y ELSE t[i]]
  BY <1>1, <1>2, <1>3, <1>6 DEF Letters
<1> QED BY <1>2, <1>5, <1>7

\* A packet that is not answered yet is still to be reported.
LEMMA UnansweredAreTaken ==
  ASSUME PacketInv, NEW p \in Range(Unanswered)
  PROVE  /\ p \in Packet /\ packet[p] # NULL /\ p \in Range(Unreported)
         /\ main.at \in {"sent", "flushed"} => p # main.p
<1>1. dequeued \in Seq(Packet)
  BY DEF PacketInv, Shapes
<1>2. CASE main.at = "sent"
  <2>1. /\ dequeued # <<>> /\ main.p = Head(dequeued) /\ Distinct(dequeued)
        /\ Unanswered = Tail(dequeued) /\ Unreported = dequeued
    BY <1>2 DEF PacketInv, Positions, Apart, Unreported, Unanswered
  <2>2. p \in Range(Unreported) /\ p # main.p
    BY <1>1, <2>1, HeadLeaves
  <2> QED BY <1>2, <2>2, UnreportedArePackets DEF PacketInv, TakenArePlaced
<1>3. CASE main.at # "sent"
  <2>1. Unanswered = Unreported
    BY <1>3 DEF Unanswered, Unreported
  <2>2. p \in Packet /\ packet[p] # NULL
    BY <2>1, UnreportedArePackets DEF PacketInv, TakenArePlaced
  <2>3. main.at = "flushed" => p # main.p
    BY <2>1 DEF PacketInv, Apart, Flushing
  <2> QED BY <1>3, <2>1, <2>2, <2>3
<1> QED BY <1>2, <1>3

\* The steps in which nobody is answered and nothing is accepted.
LEMMA PendingStays ==
  ASSUME PacketInv, UNCHANGED tx_ringbuf, Unanswered' = Unanswered,
         \A p \in Range(Unanswered) : packet'[p] # NULL /\ packet'[p].addr = packet[p].addr
  PROVE  Pending' = Pending
<1>1. ASSUME NEW a \in Addr PROVE AcceptedFor(a)' = AcceptedFor(a)
  <2>1. Unanswered \in Seq(Packet)
    BY AcceptedIsSeq
  <2>2. \A p \in Range(Unanswered) : p \in Packet /\ packet[p] # NULL
    BY UnansweredAreTaken
  <2>3. \A p \in Range(Unanswered) : p \in PacketsTo(a) <=> p \in PacketsTo(a)'
    BY <2>2 DEF PacketsTo
  <2>4. Only(Unanswered, PacketsTo(a)) = Only(Unanswered, PacketsTo(a)')
    BY <2>1, <2>3, OnlyAgrees
  <2> QED BY <2>4 DEF AcceptedFor
<1> QED BY <1>1 DEF Pending

\* The queues are flushed when all that was sent has been reported.
NothingLeft == main.at \in {"flush", "flushed"} => dequeued = <<>>

LEMMA UnseenStays ==
  ASSUME PacketInv, NothingLeft, UNCHANGED <<tx_ringbuf, packet, dequeued>>,
         \/ main'.at = main.at /\ main'.p = main.p
         \/ main.at \notin {"sent", "sweep", "flushed"} /\ main'.at \notin {"sent", "sweep", "flushed"},
         main'.at = "flush" /\ main.at # "flush" => dequeued = <<>>
  PROVE  NothingLeft' /\ UNCHANGED Service!vars
<1>1. Unanswered' = Unanswered
  BY DEF Unanswered
<1>2. Pending' = Pending
  BY <1>1, PendingStays, UnansweredAreTaken
<1>3. Answering' = Answering
  BY DEF Answering
<1>4. NothingLeft'
  BY DEF NothingLeft
<1> QED BY <1>2, <1>3, <1>4 DEF Service!vars

LEMMA CallsAreUnseen ==
  ASSUME PacketInv, NothingLeft,
         \/ Users \/ RequestLock \/ TakeLock \/ AddNbr \/ RemoveNbr
         \/ Reject \/ SetHeader \/ SetTimeSource \/ JoinFails
         \/ \E k \in DOMAIN Slotframe : Join(k)
         \/ SkipSlot \/ IdleSlot \/ StartTx \/ StartRx \/ RxFrame \/ RxEnd
  PROVE  NothingLeft' /\ UNCHANGED Service!vars
<1>1. CASE Users
  <2>1. UNCHANGED <<tx_ringbuf, packet, dequeued, main>>
    BY <1>1 DEF Users, SendPacket, SendEB, UpdateTimeSource, TschAssociate, Call,
                nbrvars, ringvars
  <2> QED BY <2>1, UnseenStays
<1>2. CASE RequestLock \/ TakeLock \/ AddNbr \/ RemoveNbr
  <2>1. UNCHANGED <<tx_ringbuf, packet, dequeued, main>>
    BY <1>2 DEF RequestLock, TakeLock, AddNbr, RemoveNbr, nbrvars, ringvars
  <2> QED BY <2>1, UnseenStays
<1>3. CASE Reject \/ SetHeader \/ SetTimeSource \/ JoinFails \/ \E k \in DOMAIN Slotframe : Join(k)
  <2>1. UNCHANGED <<tx_ringbuf, packet, dequeued, main>>
    BY <1>3 DEF Reject, SetHeader, SetTimeSource, JoinFails, Join, nbrvars, ringvars
  <2> QED BY <2>1, UnseenStays
<1>4. CASE SkipSlot \/ IdleSlot \/ StartTx \/ StartRx \/ RxFrame \/ RxEnd
  <2>1. UNCHANGED <<tx_ringbuf, packet, dequeued, main>>
    BY <1>4 DEF SkipSlot, IdleSlot, StartTx, StartRx, RxFrame, RxEnd, SlotStep, ringvars
  <2> QED BY <2>1, UnseenStays
<1> QED BY <1>1, <1>2, <1>3, <1>4

LEMMA WalksAreUnseen ==
  ASSUME PacketInv, NothingLeft,
         \/ PendingEvents \/ TschProcess \/ RxProcessPending \/ InputReturns \/ Sweep
         \/ FlushDone \/ ResetDone
         \/ FlushNbrQueue /\ tx_ringbuf[Head(main.todo)] = <<>>
         \/ TxProcessPending /\ dequeued = <<>>
  PROVE  NothingLeft' /\ UNCHANGED Service!vars
<1>1. CASE PendingEvents \/ TschProcess
  <2>1. /\ UNCHANGED <<tx_ringbuf, packet, dequeued>>
        /\ main.at = "idle" /\ main'.at = "rx"
    BY <1>1 DEF PendingEvents, TschProcess, Process, Idle, ringvars
  <2> QED BY <2>1, UnseenStays
<1>2. CASE RxProcessPending \/ InputReturns
  <2>1. UNCHANGED <<tx_ringbuf, packet, dequeued>>
    BY <1>2 DEF RxProcessPending, InputReturns, ringvars
  <2>2. main.at \in {"rx", "input"}
    BY <1>2 DEF RxProcessPending, InputReturns
  <2>3. main \in Busy
    BY <2>2, MainShape DEF PacketInv
  <2>4. main'.at \in {"tx", "input", "rx"}
    BY <1>2, <2>3 DEF RxProcessPending, InputReturns, Busy
  <2> QED BY <2>1, <2>2, <2>4, UnseenStays
<1>3. CASE Sweep
  <2>1. /\ UNCHANGED <<tx_ringbuf, packet, dequeued>> /\ main.at \in {"sweep", "last sweep"}
        /\ main' = [main EXCEPT !.todo = Tail(@)]
    BY <1>3 DEF Sweep, Call, nbrvars, ringvars
  <2>2. main \in Busy
    BY <2>1, MainShape DEF PacketInv
  <2>3. main'.at = main.at /\ main'.p = main.p
    BY <2>1, <2>2 DEF Busy
  <2> QED BY <2>1, <2>3, UnseenStays
<1>4. CASE FlushDone \/ ResetDone
  <2>1. UNCHANGED <<tx_ringbuf, packet, dequeued>> /\ main.at \in {"flush", "last sweep"}
    BY <1>4 DEF FlushDone, ResetDone, ringvars
  <2>2. main \in Busy
    BY <2>1, MainShape DEF PacketInv
  <2>3. main'.at \in {"last sweep", "idle"}
    <3>1. CASE FlushDone
      BY <2>2, <3>1 DEF FlushDone, Busy
    <3>2. CASE ResetDone
      BY <3>2 DEF ResetDone, Idle
    <3> QED BY <1>4, <3>1, <3>2
  <2> QED BY <2>1, <2>3, UnseenStays
<1>5. CASE FlushNbrQueue /\ tx_ringbuf[Head(main.todo)] = <<>>
  <2>1. /\ UNCHANGED <<tx_ringbuf, packet, dequeued>> /\ main.at = "flush"
        /\ main' = [main EXCEPT !.todo = Tail(@)]
    BY <1>5 DEF FlushNbrQueue, ringvars
  <2>2. main \in Busy
    BY <2>1, MainShape DEF PacketInv
  <2>3. main'.at = main.at /\ main'.p = main.p
    BY <2>1, <2>2 DEF Busy
  <2> QED BY <2>1, <2>3, UnseenStays
<1>6. CASE TxProcessPending /\ dequeued = <<>>
  <2>1. UNCHANGED <<tx_ringbuf, packet, dequeued>> /\ main.at = "tx"
    BY <1>6 DEF TxProcessPending, ringvars
  <2>2. main \in Busy
    BY <2>1, MainShape DEF PacketInv
  <2>3. main'.at \in {"flush", "idle"}
    BY <1>6, <2>2 DEF TxProcessPending, Busy, Idle
  <2> QED BY <1>6, <2>1, <2>3, UnseenStays
<1> QED BY <1>1, <1>2, <1>3, <1>4, <1>5, <1>6

LEMMA SweepDoneIsUnseen ==
  ASSUME PacketInv, NothingLeft, SweepDone
  PROVE  NothingLeft' /\ UNCHANGED Service!vars
<1>1. /\ UNCHANGED <<tx_ringbuf, packet>> /\ main.at = "sweep"
      /\ dequeued' = DropHead(dequeued) /\ main' = [main EXCEPT !.at = "tx"]
  BY DEF SweepDone
<1>2. main \in Busy /\ dequeued # <<>>
  BY <1>1, MainShape DEF PacketInv, Positions
<1>3. main'.at = "tx"
  BY <1>1, <1>2 DEF Busy
<1>4. Unanswered' = Unanswered
  BY <1>1, <1>2, <1>3 DEF Unanswered, DropHead
<1>5. Pending' = Pending
  BY <1>1, <1>4, PendingStays, UnansweredAreTaken
<1>6. Answering' = Answering
  BY <1>1, <1>3 DEF Answering
<1> QED BY <1>3, <1>5, <1>6 DEF Service!vars, NothingLeft

\* The callback returns: the packet that is freed is not one that waits.
LEMMA SentReturnsToService ==
  ASSUME PacketInv, NothingLeft, SentReturns \/ FlushedReturns
  PROVE  NothingLeft' /\ Service!Return
<1> DEFINE p == main.p
<1>1. /\ UNCHANGED <<tx_ringbuf, dequeued>> /\ packet' = [packet EXCEPT ![p] = NULL]
      /\ \/ main.at = "sent" /\ main' = [main EXCEPT !.at = "sweep", !.p = NULL, !.todo = neighbor_list]
         \/ main.at = "flushed" /\ main' = [main EXCEPT !.at = "flush", !.p = NULL]
  BY DEF SentReturns, FlushedReturns, ringvars
<1>2. main \in Busy /\ packet \in [Packet -> Contents \cup {NULL}]
  BY <1>1, MainShape DEF PacketInv, Shapes
<1>3. \/ main.at = "sent" /\ main'.at = "sweep"
      \/ main.at = "flushed" /\ main'.at = "flush"
  BY <1>1, <1>2 DEF Busy
<1>4. Unanswered' = Unanswered
  BY <1>1, <1>3 DEF Unanswered
<1>5. \A q \in Range(Unanswered) : packet'[q] = packet[q] /\ packet[q] # NULL
  <2> TAKE q \in Range(Unanswered)
  <2>1. q # p /\ q \in Packet /\ packet[q] # NULL
    BY <1>3, UnansweredAreTaken
  <2> HIDE DEF p
  <2> QED BY <1>1, <1>2, <2>1
<1>6. Pending' = Pending
  BY <1>1, <1>4, <1>5, PendingStays
<1>7. Answering # Idle /\ Answering' = Idle
  <2>1. Answering' = Idle
    BY <1>3 DEF Answering
  <2>2. \E s : Answering = [packet |-> LetterOf(main.p), status |-> s]
    BY <1>3 DEF Answering
  <2> QED BY <2>1, <2>2 DEF Idle
<1>8. NothingLeft'
  BY <1>1, <1>3 DEF NothingLeft
<1> QED BY <1>6, <1>7, <1>8 DEF Service!Return

\* The packets to an address are the same where the contents of their blocks are.
LEMMA OnlyStays ==
  ASSUME PacketInv, NEW a, NEW T,
         \A q \in Range(Unanswered) : q \in PacketsTo(a) <=> q \in T
  PROVE  Only(Unanswered, T) = Only(Unanswered, PacketsTo(a))
<1>1. Unanswered \in Seq(Packet)
  BY HeadTailProperties DEF PacketInv, Shapes, Positions, Unanswered
<1> QED BY <1>1, OnlyAgrees

LEMMA FirstOfThree ==
  ASSUME NEW P, NEW x \in P, NEW r \in Seq(P), NEW s \in Seq(P)
  PROVE  LET t == (<<x>> \o r) \o s IN t # <<>> /\ Head(t) = x /\ Tail(t) = r \o s
<1>1. <<x>> \in Seq(P) /\ r \o s \in Seq(P)
  OBVIOUS
<1>2. (<<x>> \o r) \o s = <<x>> \o (r \o s)
  BY <1>1, ConcatAssociative
<1>3. PICK u : u = r \o s
  OBVIOUS
<1>4. <<x>> \o u # <<>> /\ Head(<<x>> \o u) = x /\ Tail(<<x>> \o u) = u
  BY <1>1, <1>3
<1> QED BY <1>2, <1>3, <1>4

LEMMA LastOfFirst ==
  ASSUME NEW P, NEW r \in Seq(P), NEW s \in Seq(P), s # <<>>
  PROVE  Append(r, Head(s)) \o Tail(s) = r \o s
<1>1. /\ Head(s) \in P /\ Tail(s) \in Seq(P) /\ Len(Tail(s)) = Len(s) - 1 /\ Len(s) \in Nat \ {0}
      /\ \A i \in 1..Len(Tail(s)) : Tail(s)[i] = s[i + 1] 
      /\ Head(s) = s[1] /\ DOMAIN s = 1..Len(s) /\ DOMAIN Tail(s) = 1..(Len(s) - 1)
  BY HeadTailProperties
<1>2. PICK h, t : h = Head(s) /\ t = Tail(s)
  OBVIOUS
<1>3. s = <<h>> \o t
  BY <1>1, <1>2
<1>4. Append(r, h) = r \o <<h>> /\ <<h>> \in Seq(P) /\ t \in Seq(P)
  BY <1>1, <1>2, AppendIsConcat
<1>5. (r \o <<h>>) \o t = r \o (<<h>> \o t)
  BY <1>4, ConcatAssociative
<1> QED BY <1>2, <1>3, <1>4, <1>5

LEMMA Answers ==
  ASSUME PacketInv, NEW a \in Addr, AcceptedFor(a) # <<>>,
         AcceptedFor(a)' = Tail(AcceptedFor(a)),
         \A b \in Addr : b # a => AcceptedFor(b)' = AcceptedFor(b),
         NEW s \in Status,
         Answering' = [packet |-> LetterOf(Head(AcceptedFor(a))), status |-> s]
  PROVE  Service!Next
<1> DEFINE t == Letters(AcceptedFor(a))
<1>1. AcceptedFor(a) \in Seq(Packet)
  BY AcceptedIsSeq
<1>2. /\ DOMAIN t = DOMAIN AcceptedFor(a) /\ 1 \in DOMAIN t
      /\ t[1] = LetterOf(Head(AcceptedFor(a))) /\ t[1].ack = FALSE
      /\ Letters(Tail(AcceptedFor(a))) = SubSeq(t, 1, 1 - 1) \o SubSeq(t, 1 + 1, Len(t))
  BY <1>1, LettersOfTail
<1>3. Pending[a] = t
  BY DEF Pending
<1> HIDE DEF t
<1>4. Pending' = [Pending EXCEPT ![a] = Letters(Tail(AcceptedFor(a)))]
  <2>1. \A b \in Addr : Letters(AcceptedFor(b))' = Letters(AcceptedFor(b)')
    BY DEF Letters, LetterOf
  <2>2. Pending' = [b \in Addr |-> Letters(AcceptedFor(b)')]
    BY <2>1 DEF Pending
  <2> QED BY <2>2 DEF Pending
<1>5. Pending' = [Pending EXCEPT ![a] = SubSeq(Pending[a], 1, 1 - 1)
                                        \o SubSeq(Pending[a], 1 + 1, Len(Pending[a]))]
  BY <1>2, <1>3, <1>4
<1>6. Service!Turn(a, 1)
  BY DEF Service!Turn
<1>7. Answering' = [packet |-> Pending[a][1], status |-> s]
  BY <1>2, <1>3
<1>8. Service!Answer(a, 1, s)
  BY <1>5, <1>6, <1>7 DEF Service!Answer
<1> QED BY <1>2, <1>3, <1>8 DEF Service!Next

LEMMA AcceptTakes ==
  ASSUME PacketInv, NothingLeft, NEW p \in Packet, Accept(p)
  PROVE  NothingLeft' /\ Service!Next
<1>0. PICK a, s, c : /\ a = op.job.addr /\ s = tx_ringbuf[a]
                     /\ c = [addr |-> a, transmissions |-> 0, ret |-> "ERR"]
  OBVIOUS
<1>1. /\ UNCHANGED <<dequeued, main>> /\ packet[p] = NULL
      /\ packet' = [packet EXCEPT ![p] = c]
      /\ tx_ringbuf' = [tx_ringbuf EXCEPT ![a] = Append(s, p)]
  BY <1>0 DEF Accept, ringvars
<1>2. a \in Addr
  <2>1. op \in [at: {"lock", "wait", "locked", "queue"}, job: Job]
    BY OpShape DEF PacketInv, Accept
  <2> QED BY <1>0, <2>1 DEF Job
<1>3. packet \in [Packet -> Contents \cup {NULL}] /\ tx_ringbuf \in [Addr -> Seq(Packet)]
  BY DEF PacketInv, Shapes
<1>4. \A q \in Range(Unanswered) : q # p /\ packet'[q] = packet[q]
  <2> TAKE q \in Range(Unanswered)
  <2>1. q # p /\ q \in Packet
    BY <1>1, UnansweredAreTaken
  <2> QED BY <1>1, <1>3, <2>1
<1>5. Unanswered' = Unanswered
  BY <1>1 DEF Unanswered
<1>6. ASSUME NEW b \in Addr
      PROVE  AcceptedFor(b)' = Only(Unanswered, PacketsTo(b)) \o tx_ringbuf'[b]
  <2>1. \A q \in Range(Unanswered) : q \in PacketsTo(b) <=> q \in PacketsTo(b)'
    BY <1>4 DEF PacketsTo
  <2>2. Only(Unanswered, PacketsTo(b)') = Only(Unanswered, PacketsTo(b))
    BY <2>1, OnlyStays
  <2> QED BY <1>5, <2>2 DEF AcceptedFor
<1>7. ASSUME NEW b \in Addr
      PROVE  AcceptedFor(b)' = IF b = a THEN Append(AcceptedFor(a), p) ELSE AcceptedFor(b)
  <2>1. CASE b = a
    <3>1. AcceptedFor(a)' = Only(Unanswered, PacketsTo(a)) \o Append(s, p)
      <4>1. tx_ringbuf'[a] = Append(s, p)
        BY <1>1, <1>2, <1>3
      <4> QED BY <1>2, <1>6, <4>1
    <3>2. PICK r : r = Only(Unanswered, PacketsTo(a)) /\ r \in Seq(Packet) /\ s \in Seq(Packet)
      BY <1>0, <1>2, AcceptedIsSeq
    <3>3. r \o Append(s, p) = Append(r \o s, p)
      BY <3>2, SMTT(60)
    <3> QED BY <1>0, <2>1, <3>1, <3>2, <3>3 DEF AcceptedFor
  <2>2. CASE b # a
    <3>1. tx_ringbuf'[b] = tx_ringbuf[b]
      BY <1>1, <1>3, <2>2
    <3> QED BY <1>6, <2>2, <3>1 DEF AcceptedFor
  <2> QED BY <2>1, <2>2
<1>8. Pending' = [Pending EXCEPT ![a] = Append(Pending[a], LetterOf(p))]
  <2>1. AcceptedFor(a) \in Seq(Packet)
    BY <1>2, AcceptedIsSeq
  <2>2. Letters(Append(AcceptedFor(a), p)) = Append(Letters(AcceptedFor(a)), LetterOf(p))
    BY <2>1, LettersOfAppend
  <2>3. \A b \in Addr : Letters(AcceptedFor(b))' = Letters(AcceptedFor(b)')
    BY DEF Letters, LetterOf
  <2>4. Pending' = [b \in Addr |-> Letters(AcceptedFor(b)')]
    BY <2>3 DEF Pending
  <2> QED BY <1>2, <1>7, <2>2, <2>4 DEF Pending
<1>9. LetterOf(p) \in Letter /\ LetterOf(p).ack = FALSE
  BY DEF LetterOf, Letter
<1>10. Answering' = Answering
  <2>1. main.at = "sent" => main.p \in Packet /\ main.p # p
    <3>1. ASSUME main.at = "sent" PROVE main.p \in Range(Unreported)
      <4>1. /\ dequeued # <<>> /\ main.p = Head(dequeued) /\ Unreported = dequeued
            /\ dequeued \in Seq(Packet) /\ Distinct(dequeued)
        BY <3>1 DEF PacketInv, Positions, Apart, Unreported, Shapes
      <4> QED BY <4>1, HeadLeaves
    <3> QED BY <1>1, <3>1, UnreportedArePackets DEF PacketInv, TakenArePlaced
  <2>2. main.at = "sent" => packet'[main.p] = packet[main.p]
    BY <1>1, <1>3, <2>1
  <2> QED BY <1>1, <2>2 DEF Answering
<1>11. Service!Take(a, LetterOf(p))
  BY <1>8, <1>9, <1>10 DEF Service!Take
<1>12. NothingLeft'
  BY <1>1 DEF NothingLeft
<1> QED BY <1>2, <1>9, <1>11, <1>12 DEF Service!Next

\* tsch_tx_process_pending reports the packet that left its queue first.
LEMMA TxProcessAnswers ==
  ASSUME PacketInv, NothingLeft, TxProcessPending, dequeued # <<>>
  PROVE  NothingLeft' /\ Service!Next
<1>0. PICK U, p : U = dequeued /\ p = Head(dequeued)
  OBVIOUS
<1>1. /\ UNCHANGED <<tx_ringbuf, packet, dequeued>> /\ main.at = "tx"
      /\ main' = [main EXCEPT !.at = "sent", !.p = p]
  BY <1>0 DEF TxProcessPending, ringvars
<1>2. main \in Busy
  BY <1>1, MainShape DEF PacketInv
<1>3. main'.at = "sent" /\ main'.p = p
  BY <1>1, <1>2 DEF Busy
<1>4. U \in Seq(Packet) /\ U # <<>> /\ Tail(U) \in Seq(Packet) /\ p \in Packet /\ p = Head(U)
  BY <1>0, HeadTailProperties DEF PacketInv, Shapes
<1>5. Unanswered = U /\ Unanswered' = Tail(U)
  BY <1>0, <1>1, <1>3 DEF Unanswered
<1>6. packet[p] # NULL /\ packet[p] \in Contents
  <2>1. p \in Range(Unanswered)
    BY <1>4, <1>5 DEF Range
  <2> QED BY <2>1, <1>4, UnansweredAreTaken DEF PacketInv, Shapes
<1>7. PICK a : a = packet[p].addr
  OBVIOUS
<1>8. a \in Addr /\ packet[p].ret \in Status
  BY <1>6, <1>7 DEF Contents
<1>9. \A b \in Addr : PacketsTo(b)' = PacketsTo(b) /\ (p \in PacketsTo(b) <=> b = a)
  BY <1>1, <1>4, <1>6, <1>7 DEF PacketsTo
<1>10. ASSUME NEW b \in Addr
       PROVE  /\ AcceptedFor(b) = Only(U, PacketsTo(b)) \o tx_ringbuf[b]
              /\ AcceptedFor(b)' = Only(Tail(U), PacketsTo(b)) \o tx_ringbuf[b]
              /\ Only(U, PacketsTo(b)) = IF b = a THEN <<p>> \o Only(Tail(U), PacketsTo(b))
                                         ELSE Only(Tail(U), PacketsTo(b))
  <2>1. Only(U, PacketsTo(b)) = IF p \in PacketsTo(b) THEN <<p>> \o Only(Tail(U), PacketsTo(b))
                                ELSE Only(Tail(U), PacketsTo(b))
    BY <1>4, OnlyOfTail
  <2>2. AcceptedFor(b) = Only(U, PacketsTo(b)) \o tx_ringbuf[b]
    BY <1>5 DEF AcceptedFor
  <2>3. AcceptedFor(b)' = Only(Tail(U), PacketsTo(b)) \o tx_ringbuf[b]
    BY <1>1, <1>5, <1>9 DEF AcceptedFor
  <2> QED BY <1>9, <2>1, <2>2, <2>3
<1>11. \A b \in Addr : b # a => AcceptedFor(b)' = AcceptedFor(b)
  BY <1>10
<1>12. /\ AcceptedFor(a) # <<>> /\ Head(AcceptedFor(a)) = p
       /\ AcceptedFor(a)' = Tail(AcceptedFor(a))
  <2>1. PICK r, s : r = Only(Tail(U), PacketsTo(a)) /\ s = tx_ringbuf[a]
    OBVIOUS
  <2>2. r \in Seq(Packet)
    BY <1>4, <2>1, OnlyIsSeq
  <2>3. s \in Seq(Packet)
    BY <1>8, <2>1 DEF PacketInv, Shapes
  <2>4. (<<p>> \o r) \o s # <<>> /\ Head((<<p>> \o r) \o s) = p /\ Tail((<<p>> \o r) \o s) = r \o s
    BY <1>4, <2>2, <2>3, FirstOfThree
  <2>5. AcceptedFor(a) = (<<p>> \o r) \o s /\ AcceptedFor(a)' = r \o s
    BY <1>8, <1>10, <2>1
  <2> QED BY <2>4, <2>5
<1>13. Answering' = [packet |-> LetterOf(p), status |-> packet[p].ret]
  BY <1>1, <1>3 DEF Answering, LetterOf
<1>14. PICK st : st = packet[p].ret /\ st \in Status
  BY <1>8
<1>15. Service!Next
  <2>1. Answering' = [packet |-> LetterOf(Head(AcceptedFor(a))), status |-> st]
    BY <1>12, <1>13, <1>14
  <2> QED BY <1>8, <1>11, <1>12, <1>14, <2>1, Answers
<1> QED BY <1>3, <1>15 DEF NothingLeft

\* tsch_queue_flush_nbr_queue reports the oldest packet of a queue: all that
\* were sent before it have been reported.
LEMMA FlushAnswers ==
  ASSUME PacketInv, NothingLeft, FlushNbrQueue, tx_ringbuf[Head(main.todo)] # <<>>
  PROVE  NothingLeft' /\ Service!Next
<1>0. PICK a, s, p : a = Head(main.todo) /\ s = tx_ringbuf[a] /\ p = Head(s)
  OBVIOUS
<1>1. /\ UNCHANGED <<packet, dequeued>> /\ main.at = "flush" /\ main.todo # <<>>
      /\ tx_ringbuf' = [tx_ringbuf EXCEPT ![a] = Tail(s)]
      /\ main' = [main EXCEPT !.at = "flushed", !.p = p] /\ s # <<>>
  BY <1>0 DEF FlushNbrQueue, ringvars, Flushed
<1>2. main \in Busy
  BY <1>1, MainShape DEF PacketInv
<1>3. main'.at = "flushed" /\ main'.p = p
  BY <1>1, <1>2 DEF Busy
<1>4. a \in Addr
  <2>1. main.todo \in Seq(Addr)
    BY <1>2 DEF Busy
  <2> QED BY <1>0, <1>1, <2>1, HeadTailProperties
<1>5. s \in Seq(Packet) /\ tx_ringbuf \in [Addr -> Seq(Packet)]
  BY <1>0, <1>4 DEF PacketInv, Shapes
<1>6. Unanswered = <<>> /\ Unanswered' = <<>> /\ dequeued' = <<>>
  BY <1>1, <1>3 DEF NothingLeft, Unanswered
<1>7. ASSUME NEW b \in Addr
      PROVE  AcceptedFor(b) = tx_ringbuf[b] /\ AcceptedFor(b)' = tx_ringbuf'[b]
  <2>1. Only(Unanswered, PacketsTo(b)) = <<>>
    BY <1>6, OnlyOfNothing
  <2>2. Only(Unanswered', PacketsTo(b)') = <<>>
    BY <1>6, OnlyOfNothing
  <2>3. tx_ringbuf'[b] \in Seq(Packet) /\ tx_ringbuf[b] \in Seq(Packet)
    BY <1>1, <1>5, HeadTailProperties
  <2>4. <<>> \o tx_ringbuf[b] = tx_ringbuf[b] /\ <<>> \o tx_ringbuf'[b] = tx_ringbuf'[b]
    BY <2>3, ConcatEmptySeq
  <2> QED BY <2>1, <2>2, <2>4 DEF AcceptedFor
<1>8. /\ AcceptedFor(a) # <<>> /\ Head(AcceptedFor(a)) = p
      /\ AcceptedFor(a)' = Tail(AcceptedFor(a))
  <2>1. tx_ringbuf'[a] = Tail(s)
    BY <1>1, <1>4, <1>5
  <2> QED BY <1>0, <1>1, <1>4, <1>7, <2>1
<1>9. \A b \in Addr : b # a => AcceptedFor(b)' = AcceptedFor(b)
  <2>1. \A b \in Addr : b # a => tx_ringbuf'[b] = tx_ringbuf[b]
    BY <1>1, <1>5
  <2> QED BY <1>7, <2>1
<1>10. Answering' = [packet |-> LetterOf(p), status |-> "ERR"] /\ "ERR" \in Status
  BY <1>3 DEF Answering, LetterOf, Status
<1>11. Service!Next
  <2>1. Answering' = [packet |-> LetterOf(Head(AcceptedFor(a))), status |-> "ERR"]
    BY <1>8, <1>10
  <2> QED BY <1>4, <1>8, <1>9, <1>10, <2>1, Answers
<1> QED BY <1>6, <1>11 DEF NothingLeft

\* A packet that leaves its queue keeps its turn.
LEMMA TxEndIsUnseen ==
  ASSUME PacketInv, NothingLeft, NEW status \in Status, TxEnd(status)
  PROVE  NothingLeft' /\ UNCHANGED Service!vars
<1>0. PICK n, p, s, old, leaves, new :
        /\ n = slot.n /\ p = slot.p /\ s = tx_ringbuf[n] /\ old = packet[p]
        /\ leaves = (status = "OK" \/ old.transmissions + 1 >= MaxRetries + 1)
        /\ new = [old EXCEPT !.transmissions = old.transmissions + 1, !.ret = status]
  OBVIOUS
<1>1. UNCHANGED main /\ slot.at = "tx"
  BY DEF TxEnd, SlotStep
<1>2. /\ n \in Addr /\ p \in Packet /\ s \in Seq(Packet) /\ s # <<>> /\ p = Head(s)
      /\ old # NULL /\ old.addr = n /\ old \in Contents /\ ~DequeuedFull /\ Distinct(s)
  <2>1. n \in Addr /\ p \in Packet
    BY <1>0, <1>1, SlotShape DEF PacketInv
  <2> QED BY <1>0, <1>1, <2>1 DEF PacketInv, Shapes, Apart, SlotKeepsItsPacket
<1>3. /\ packet \in [Packet -> Contents \cup {NULL}] /\ tx_ringbuf \in [Addr -> Seq(Packet)]
      /\ dequeued \in Seq(Packet)
  BY DEF PacketInv, Shapes
<1>4. /\ packet' = [packet EXCEPT ![p] = new]
      /\ tx_ringbuf' = [tx_ringbuf EXCEPT ![n] = IF leaves THEN Tail(s) ELSE s]
      /\ dequeued' = IF leaves THEN Append(dequeued, p) ELSE dequeued
  <2>1. packet' = [packet EXCEPT ![p].transmissions = old.transmissions + 1, ![p].ret = status]
    BY <1>0 DEF TxEnd
  <2>2. packet' = [packet EXCEPT ![p] = new]
    BY <1>0, <1>2, <1>3, <2>1 DEF Contents
  <2>3. /\ tx_ringbuf' = [tx_ringbuf EXCEPT ![n] = IF leaves THEN DropHead(s) ELSE s]
        /\ dequeued' = IF leaves THEN PutIn(dequeued, DequeuedSize, p) ELSE dequeued
    BY <1>0 DEF TxEnd
  <2> QED BY <1>2, <2>2, <2>3 DEF DropHead, PutIn, DequeuedFull
<1>5. new.addr = n /\ new # NULL
  <2>1. old.transmissions + 1 \in Nat
    BY <1>2 DEF Contents
  <2>2. new \in Contents /\ new.addr = n
    BY <1>0, <1>2, <2>1 DEF Contents
  <2> QED BY <2>2, TschAssumption
<1>6. /\ packet'[p] = new /\ \A q \in Packet \ {p} : packet'[q] = packet[q]
      /\ \A b \in Addr : tx_ringbuf'[b] = IF b = n /\ leaves THEN Tail(s) ELSE tx_ringbuf[b]
  BY <1>0, <1>2, <1>3, <1>4
<1>7. ASSUME NEW b \in Addr
      PROVE  PacketsTo(b)' = PacketsTo(b) /\ (p \in PacketsTo(b) <=> b = n)
  <2>1. \A q \in Packet : q \in PacketsTo(b)' <=> q \in PacketsTo(b)
    BY <1>0, <1>2, <1>5, <1>6 DEF PacketsTo
  <2> QED BY <1>0, <1>2, <2>1 DEF PacketsTo
<1>8. Unanswered' = IF leaves THEN Append(Unanswered, p) ELSE Unanswered
  <2>1. main.at \in {"sent", "sweep"} => dequeued # <<>>
    BY DEF PacketInv, Positions
  <2>2. dequeued # <<>> => Tail(Append(dequeued, p)) = Append(Tail(dequeued), p)
    BY <1>3, HeadTailAppend
  <2> QED BY <1>1, <1>4, <2>1, <2>2 DEF Unanswered
<1>9. ASSUME NEW b \in Addr PROVE AcceptedFor(b)' = AcceptedFor(b)
  <2>1. AcceptedFor(b)' = Only(Unanswered', PacketsTo(b)) \o tx_ringbuf'[b]
    BY <1>7 DEF AcceptedFor
  <2>2. CASE leaves
    <3>1. PICK U : U = Unanswered /\ U \in Seq(Packet)
      BY AcceptedIsSeq
    <3>2. Only(Unanswered', PacketsTo(b)) = IF p \in PacketsTo(b) THEN Append(Only(U, PacketsTo(b)), p)
                                            ELSE Only(U, PacketsTo(b))
      <4>1. PICK S : S = PacketsTo(b)
        OBVIOUS
      <4>2. Unanswered' = Append(U, p)
        BY <1>8, <2>2, <3>1
      <4>3. Only(Append(U, p), S) = IF p \in S THEN Append(Only(U, S), p) ELSE Only(U, S)
        BY <1>2, <3>1, OnlyOfAppend
      <4> QED BY <4>1, <4>2, <4>3
    <3>3. CASE b = n
      <4>1. PICK r : r = Only(U, PacketsTo(b)) /\ r \in Seq(Packet)
        BY <3>1, AcceptedIsSeq
      <4>2. Append(r, Head(s)) \o Tail(s) = r \o s
        BY <1>2, <4>1, LastOfFirst
      <4>3. AcceptedFor(b)' = Append(r, p) \o Tail(s)
        BY <1>6, <1>7, <2>1, <2>2, <3>2, <3>3, <4>1
      <4> QED BY <1>0, <1>2, <3>1, <3>3, <4>1, <4>2, <4>3 DEF AcceptedFor
    <3>4. CASE b # n
      BY <1>6, <1>7, <2>1, <3>1, <3>2, <3>4 DEF AcceptedFor
    <3> QED BY <3>3, <3>4
  <2>3. CASE ~leaves
    BY <1>6, <1>8, <2>1, <2>3 DEF AcceptedFor
  <2> QED BY <2>2, <2>3
<1>10. Pending' = Pending
  <2>1. \A b \in Addr : Letters(AcceptedFor(b))' = Letters(AcceptedFor(b)')
    BY DEF Letters, LetterOf
  <2>2. Pending' = [b \in Addr |-> Letters(AcceptedFor(b)')]
    BY <2>1 DEF Pending
  <2> QED BY <1>9, <2>2 DEF Pending
<1>11. Answering' = Answering
  <2>1. main.at = "sent" => main.p \in Packet /\ main.p # p
    <3>1. ASSUME main.at = "sent" PROVE main.p \in Range(Unreported)
      <4>1. /\ dequeued # <<>> /\ main.p = Head(dequeued) /\ Unreported = dequeued
            /\ dequeued \in Seq(Packet) /\ Distinct(dequeued)
        BY <3>1 DEF PacketInv, Positions, Apart, Unreported, Shapes
      <4> QED BY <4>1, HeadLeaves
    <3>2. p \in Queued(n)
      BY <1>0, <1>2, HeadLeaves DEF Queued
    <3>3. p \notin Range(Unreported)
      BY <1>2, <3>2 DEF PacketInv, Apart
    <3> QED BY <3>1, <3>3, UnreportedArePackets DEF PacketInv
  <2>2. main.at = "sent" => packet'[main.p] = packet[main.p]
    BY <1>6, <2>1
  <2> QED BY <1>1, <2>2 DEF Answering, LetterOf
<1>12. NothingLeft'
  <2>1. main.at \notin {"flush", "flushed"}
    BY <1>1, FlushExcludesTx
  <2> QED BY <1>1, <2>1 DEF NothingLeft
<1> QED BY <1>10, <1>11, <1>12 DEF Service!vars

LEMMA StepServes ==
  ASSUME PacketInv, NothingLeft, TschNext
  PROVE  NothingLeft' /\ [Service!Next]_Service!vars
<1>1. CASE \/ Users \/ RequestLock \/ TakeLock \/ AddNbr \/ RemoveNbr
           \/ Reject \/ SetHeader \/ SetTimeSource \/ JoinFails
           \/ \E k \in DOMAIN Slotframe : Join(k)
           \/ SkipSlot \/ IdleSlot \/ StartTx \/ StartRx \/ RxFrame \/ RxEnd
  BY <1>1, CallsAreUnseen
<1>2. CASE \E status \in Status : TxEnd(status)
  BY <1>2, TxEndIsUnseen
<1>3. CASE \E p \in Packet : Accept(p)
  BY <1>3, AcceptTakes
<1>4. CASE \/ PendingEvents \/ TschProcess \/ RxProcessPending \/ InputReturns \/ Sweep
           \/ FlushDone \/ ResetDone
  BY <1>4, WalksAreUnseen
<1>5. CASE TxProcessPending
  BY <1>5, WalksAreUnseen, TxProcessAnswers
<1>6. CASE FlushNbrQueue
  BY <1>6, WalksAreUnseen, FlushAnswers
<1>7. CASE SweepDone
  BY <1>7, SweepDoneIsUnseen
<1>8. CASE SentReturns \/ FlushedReturns
  BY <1>8, SentReturnsToService DEF Service!Next
<1> QED BY <1>1, <1>2, <1>3, <1>4, <1>5, <1>6, <1>7, <1>8 DEF TschNext, Slot, Main

(* The MAC gives the service that it promises: every packet that           *)
(* tsch_queue_add_packet takes is answered by one callback, in the order   *)
(* in which the packets to its receiver were sent, whether it is           *)
(* acknowledged, given up or flushed, over every interleaving of the slot  *)
(* operation and the main thread.                                          *)
THEOREM TschGivesItsService == TschSpec => ImplementsMacService
<1>1. TschInit => NothingLeft /\ Service!Init
  <2>1. SUFFICES ASSUME TschInit PROVE NothingLeft /\ Service!Init
    OBVIOUS
  <2>2. /\ main.at = "idle" /\ dequeued = <<>> /\ tx_ringbuf = [a \in Addr |-> <<>>]
    BY <2>1 DEF TschInit, Idle
  <2>3. NothingLeft /\ Answering = Idle /\ Unanswered = <<>>
    BY <2>2 DEF NothingLeft, Answering, Unanswered
  <2>4. \A a \in Addr : AcceptedFor(a) = <<>>
    <3> TAKE a \in Addr
    <3>1. Only(Unanswered, PacketsTo(a)) = <<>>
      BY <2>3, OnlyOfNothing
    <3>2. <<>> \o <<>> = <<>>
      OBVIOUS
    <3> QED BY <2>2, <3>1, <3>2 DEF AcceptedFor
  <2>5. Letters(<<>>) = <<>>
    BY DEF Letters
  <2> QED BY <2>3, <2>4, <2>5 DEF Service!Init, Pending
<1>2. PacketInv /\ NothingLeft /\ [TschNext]_vars => NothingLeft' /\ [Service!Next]_Service!vars
  <2>1. ASSUME PacketInv, NothingLeft, UNCHANGED vars
        PROVE  NothingLeft' /\ UNCHANGED Service!vars
    <3>1. UNCHANGED <<tx_ringbuf, packet, dequeued, main>>
      BY <2>1 DEF vars, nbrvars, ringvars
    <3> QED BY <2>1, <3>1, UnseenStays
  <2> QED BY <2>1, StepServes
<1>3. QED
  BY <1>1, <1>2, PacketsInvariant, PTL DEF TschSpec, ImplementsMacService, Service!Spec

=============================================================================
