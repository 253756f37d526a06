--------------------------- MODULE RunicastProofs ---------------------------
(***************************************************************************)
(* Theorems about reliable unicast, for every width of the packet ID, all  *)
(* maximal numbers of transmissions and every number of packets.           *)
(***************************************************************************)
EXTENDS Runicast, TLAPS

Data == [no: Nat, sndnxt: Nat]

Connection == [sndnxt: Nat, is_tx: BOOLEAN, rxmit: Nat, max_rxmit: Nat,
               buf: Data \cup {NULL}, timer: BOOLEAN]

RunicastTypeOK ==
  /\ packets \in Nat /\ c \in Connection
  /\ mac \in Seq(Data) /\ air \in Seq(Data) /\ accepted \in Seq(Data)
  /\ acks \subseteq Data

\* Everywhere where a packet can be.
InPlay == Range(mac) \cup Range(air) \cup Range(accepted) \cup acks
            \cup (IF c.buf = NULL THEN {} ELSE {c.buf})

\* sndnxt tells the packets apart and grows with them; only the packet that is
\* being sent has the one that the sender has.
Numbered ==
  /\ \A p \in InPlay : p.no <= packets /\ p.sndnxt <= c.sndnxt
  /\ \A p \in InPlay : p.sndnxt = c.sndnxt => c.is_tx /\ c.buf = p
  /\ \A p, q \in InPlay : p.no = q.no => p = q
  /\ \A p, q \in InPlay : p.no < q.no => p.sndnxt < q.sndnxt
  /\ c.buf # NULL => c.buf.no = packets

\* On its way from the sender's MAC to the receiver's application no packet
\* passes one that was sent before it.
Before(s, t) == \A i \in DOMAIN s, j \in DOMAIN t : s[i].no <= t[j].no
Ordered(s) == \A i, j \in DOMAIN s : i <= j => s[i].no <= s[j].no
InOrder ==
  /\ Ordered(mac) /\ Ordered(air)
  /\ Before(air, mac) /\ Before(accepted, air) /\ Before(accepted, mac)

Acknowledged == sent \subseteq acks /\ acks \subseteq Range(accepted)

RInv == RunicastTypeOK /\ Numbered /\ InOrder /\ Acknowledged /\ InOrderOnce

LEMMA InitRInv == RunicastInit => RInv
BY DEF RunicastInit, RInv, Connection, RunicastTypeOK, Numbered, InPlay, InOrder, Before, Ordered,
   Acknowledged, InOrderOnce, Range

----------------------------------------------------------------------------
(* Sequences and numbers *)

LEMMA Appended ==
  ASSUME NEW S, NEW s \in Seq(S), NEW x \in S
  PROVE  /\ Append(s, x) \in Seq(S)
         /\ DOMAIN Append(s, x) = DOMAIN s \cup {Len(s) + 1}
         /\ Append(s, x)[Len(s) + 1] = x /\ Len(s) + 1 \notin DOMAIN s
         /\ \A i \in DOMAIN s : Append(s, x)[i] = s[i] /\ i <= Len(s) /\ i \in Nat
OBVIOUS

LEMMA AppendRange ==
  ASSUME NEW S, NEW s \in Seq(S), NEW x \in S
  PROVE  Range(Append(s, x)) = Range(s) \cup {x}
<1> DEFINE t == Append(s, x)
<1>1. /\ DOMAIN t = DOMAIN s \cup {Len(s) + 1} /\ t[Len(s) + 1] = x
      /\ \A i \in DOMAIN s : t[i] = s[i]
  BY Appended
<1>2. \A y : y \in Range(t) <=> y \in Range(s) \cup {x}
  <2> HIDE DEF t
  <2>1. QED BY <1>1 DEF Range
<1>3. QED BY <1>2

LEMMA TailRange ==
  ASSUME NEW S, NEW s \in Seq(S), s # <<>>
  PROVE  Tail(s) \in Seq(S) /\ Range(Tail(s)) \subseteq Range(s) /\ Head(s) \in Range(s)
BY DEF Range

\* At the end of what is in order goes what is not before any of it.
LEMMA AppendOrder ==
  ASSUME NEW s \in Seq(Data), NEW t \in Seq(Data), NEW p \in Data,
         Ordered(s), \A i \in DOMAIN s : s[i].no <= p.no
  PROVE  /\ Ordered(Append(s, p))
         /\ Before(t, s) /\ (\A i \in DOMAIN t : t[i].no <= p.no) => Before(t, Append(s, p))
         /\ Before(s, t) /\ (\A i \in DOMAIN t : p.no <= t[i].no) => Before(Append(s, p), t)
<1> DEFINE u == Append(s, p)
<1>1. /\ DOMAIN u = DOMAIN s \cup {Len(s) + 1} /\ u[Len(s) + 1] = p
      /\ \A i \in DOMAIN s : u[i] = s[i] /\ i <= Len(s) /\ i \in Nat
      /\ Len(s) \in Nat
  BY Appended
<1>2. p.no \in Nat
  BY DEF Data
<1> HIDE DEF u
<1>3. Ordered(u)
  BY <1>1, <1>2 DEF Ordered
<1>4. Before(t, s) /\ (\A i \in DOMAIN t : t[i].no <= p.no) => Before(t, u)
  BY <1>1 DEF Before
<1>5. Before(s, t) /\ (\A i \in DOMAIN t : p.no <= t[i].no) => Before(u, t)
  BY <1>1 DEF Before
<1>6. QED BY <1>3, <1>4, <1>5 DEF u

LEMMA TailOrder ==
  ASSUME NEW s \in Seq(Data), NEW t \in Seq(Data), s # <<>>, Ordered(s)
  PROVE  /\ Ordered(Tail(s))
         /\ Before(s, t) => Before(Tail(s), t)
         /\ Before(t, s) => Before(t, Tail(s))
BY DEF Ordered, Before

\* Less than NumIds apart, equal IDs are equal numbers.
LEMMA EqualIds ==
  ASSUME NEW m \in Nat, NEW n \in Nat, m <= n, n - m < NumIds, Id(m) = Id(n)
  PROVE  m = n
<1> DEFINE j == m \div NumIds
           k == n \div NumIds
<1>1. NumIds \in Nat \ {0}
  BY RunicastAssumption
<1>2. m = NumIds * j + Id(m) /\ n = NumIds * k + Id(n) /\ j \in Nat /\ k \in Nat
  BY <1>1 DEF Id
<1>3. n - m = NumIds * (k - j)
  BY <1>1, <1>2 DEF Id
<1>4. k - j < 1 /\ k - j > -1
  BY <1>1, <1>2, <1>3
<1>5. QED BY <1>1, <1>2, <1>3, <1>4
----------------------------------------------------------------------------
(* The steps *)

\* The packet that is cancelled leaves the rest of the connection as it is.
CancelledConnection(d) ==
  /\ Cancelled(d) \in Connection /\ Cancelled(d).buf = NULL
  /\ Cancelled(d).sndnxt = d.sndnxt

LEMMA CancelledIsConnection ==
  ASSUME NEW d \in Connection
  PROVE  CancelledConnection(d)
BY DEF CancelledConnection, Connection, Cancelled

LEMMA EndedIsConnection ==
  ASSUME NEW d \in Connection, NEW e,
         \/ e = [d EXCEPT !.is_tx = FALSE, !.rxmit = 0, !.sndnxt = @ + 1]
         \/ e = [d EXCEPT !.sndnxt = @ + 1, !.is_tx = FALSE]
  PROVE  e \in Connection /\ e.sndnxt = d.sndnxt + 1 /\ e.buf = d.buf
<1>1. d.sndnxt + 1 \in Nat
  BY DEF Connection
<1>2. CASE e = [d EXCEPT !.is_tx = FALSE, !.rxmit = 0, !.sndnxt = d.sndnxt + 1]
  BY <1>1, <1>2 DEF Connection
<1>3. CASE e = [d EXCEPT !.sndnxt = d.sndnxt + 1, !.is_tx = FALSE]
  BY <1>1, <1>3 DEF Connection
<1>4. QED BY <1>2, <1>3

\* A report counts one more transmission, or ends the packet.
LEMMA ReportedConnection ==
  ASSUME NEW d \in Connection
  PROVE  /\ Reported(d) \in Connection
         /\ \/ Reported(d).sndnxt = d.sndnxt + 1 /\ Reported(d).buf = NULL
            \/ /\ Reported(d).sndnxt = d.sndnxt /\ Reported(d).buf = d.buf
               /\ Reported(d).is_tx = d.is_tx
<1>1. CancelledConnection(d)
  BY CancelledIsConnection
<1>2. /\ TimedOut(d) \in Connection
      /\ TimedOut(d).sndnxt = d.sndnxt + 1 /\ TimedOut(d).buf = NULL
  BY <1>1, EndedIsConnection DEF CancelledConnection, TimedOut
<1>3. CASE d.rxmit + 1 >= d.max_rxmit
  BY <1>2, <1>3 DEF Reported
<1>4. CASE ~(d.rxmit + 1 >= d.max_rxmit)
  <2>1. Reported(d) = [d EXCEPT !.rxmit = @ + 1]
    BY <1>4 DEF Reported
  <2>2. QED BY <2>1 DEF Connection
<1>5. QED BY <1>3, <1>4

\* Without a new packet the numbers stay right as long as sndnxt only leaves the
\* number of the present packet behind.
LEMMA NumbersKept ==
  ASSUME RInv, c' \in Connection, packets' = packets, InPlay' \subseteq InPlay,
         \/ c'.sndnxt = c.sndnxt + 1 /\ c'.buf = NULL
         \/ c'.sndnxt = c.sndnxt /\ c'.buf = c.buf /\ c'.is_tx = c.is_tx
  PROVE  Numbered'
<1>1. InPlay \subseteq Data /\ c \in Connection
  BY DEF RInv, RunicastTypeOK, InPlay, Range, Connection
<1>2. \A p \in InPlay' : p.no <= packets' /\ p.sndnxt <= c'.sndnxt
  BY <1>1 DEF RInv, Numbered, Connection, Data
<1>3. \A p \in InPlay' : p.sndnxt = c'.sndnxt => c'.is_tx /\ c'.buf = p
  BY <1>1 DEF RInv, Numbered, Connection, Data
<1>4. c'.buf # NULL => c'.buf.no = packets'
  BY DEF RInv, Numbered
<1>5. QED
  BY <1>2, <1>3, <1>4 DEF RInv, Numbered

\* The MAC takes p, or p is heard at once when the MAC holds nothing.
LEMMA HandOrder ==
  ASSUME RInv, NEW p \in Data,
         \A q \in Range(mac) \cup Range(air) \cup Range(accepted) : q.no <= p.no,
         accepted' = accepted,
         \/ mac' = Append(mac, p) /\ air' = air
         \/ mac' = mac /\ air' = air
         \/ mac' = mac /\ mac = <<>> /\ air' = Append(air, p)
  PROVE  /\ InOrder' /\ mac' \in Seq(Data) /\ air' \in Seq(Data)
         /\ Range(mac') \cup Range(air') \subseteq Range(mac) \cup Range(air) \cup {p}
<1>1. mac \in Seq(Data) /\ air \in Seq(Data) /\ accepted \in Seq(Data) /\ InOrder
  BY DEF RInv, RunicastTypeOK
<1>2. /\ \A i \in DOMAIN mac : mac[i].no <= p.no
      /\ \A i \in DOMAIN air : air[i].no <= p.no
      /\ \A i \in DOMAIN accepted : accepted[i].no <= p.no
  BY DEF Range
<1>3. CASE mac' = Append(mac, p) /\ air' = air
  <2>1. /\ Ordered(mac') /\ Before(air, mac') /\ Before(accepted, mac')
    BY <1>1, <1>2, <1>3, AppendOrder DEF InOrder
  <2>2. mac' \in Seq(Data) /\ Range(mac') = Range(mac) \cup {p}
    BY <1>1, <1>3, Appended, AppendRange
  <2>3. QED BY <1>1, <1>3, <2>1, <2>2 DEF InOrder
<1>4. CASE mac' = mac /\ air' = air
  BY <1>1, <1>4 DEF InOrder
<1>5. CASE mac' = mac /\ mac = <<>> /\ air' = Append(air, p)
  <2>1. /\ Ordered(air') /\ Before(accepted, air')
    BY <1>1, <1>2, <1>5, AppendOrder DEF InOrder
  <2>2. Before(air', mac')
    BY <1>5 DEF Before
  <2>3. air' \in Seq(Data) /\ Range(air') = Range(air) \cup {p}
    BY <1>1, <1>5, Appended, AppendRange
  <2>4. QED BY <1>1, <1>5, <2>1, <2>2, <2>3 DEF InOrder
<1>6. QED BY <1>3, <1>4, <1>5

LEMMA SendRInv ==
  ASSUME RInv, NEW max \in MaxRxmits, Send(max)
  PROVE  RInv'
<1> DEFINE p == [no |-> packets + 1, sndnxt |-> c.sndnxt]
           d == [Begun(max) EXCEPT !.buf = p, !.timer = TRUE]
<1>1. /\ packets \in Nat /\ c \in Connection /\ InPlay \subseteq Data /\ Numbered
      /\ max \in Nat
  BY RunicastAssumption DEF RInv, RunicastTypeOK, InPlay, Range, Connection
<1>2. p \in Data /\ p # NULL
  BY <1>1, RunicastAssumption DEF Data, Connection
<1>3. /\ d \in Connection /\ d.sndnxt = c.sndnxt /\ d.is_tx = TRUE /\ d.buf = p
  BY <1>1, <1>2 DEF Connection, Begun
<1>4. /\ ~c.is_tx /\ packets' = packets + 1
      /\ UNCHANGED <<acks, sent, accepted>>
  BY DEF Send
<1>5. /\ c' \in {d, Reported(d)}
      /\ \/ mac' = Append(mac, p) /\ air' = air
         \/ mac' = mac /\ air' = air
         \/ mac' = mac /\ mac = <<>> /\ air' = Append(air, p)
  BY DEF Send, Hand
<1>6. /\ c' \in Connection
      /\ \/ c'.sndnxt = c.sndnxt + 1 /\ c'.buf = NULL
         \/ c'.sndnxt = c.sndnxt /\ c'.buf = p /\ c'.is_tx
  BY <1>3, <1>5, ReportedConnection
<1>7. \A q \in InPlay : q \in Data /\ q.no <= packets /\ q.sndnxt < c.sndnxt
  BY <1>1, <1>4 DEF Numbered, Connection, Data
<1>8. /\ InOrder' /\ mac' \in Seq(Data) /\ air' \in Seq(Data)
      /\ Range(mac') \cup Range(air') \subseteq Range(mac) \cup Range(air) \cup {p}
  <2>1. \A q \in Range(mac) \cup Range(air) \cup Range(accepted) : q.no <= p.no
    BY <1>1, <1>7 DEF InPlay, Data
  <2>2. QED BY <1>2, <1>4, <1>5, <2>1, HandOrder
<1>9. InPlay' \subseteq InPlay \cup {p}
  BY <1>4, <1>6, <1>8 DEF InPlay
<1>10. Numbered'
  <2>1. \A q \in InPlay' : q.no <= packets' /\ q.sndnxt <= c'.sndnxt
    BY <1>1, <1>2, <1>4, <1>6, <1>7, <1>9 DEF Connection, Data
  <2>2. \A q \in InPlay' : q.sndnxt = c'.sndnxt => c'.is_tx /\ c'.buf = q
    BY <1>1, <1>2, <1>6, <1>7, <1>9 DEF Connection, Data
  <2>3. \A q, r \in InPlay' : q.no = r.no => q = r
    BY <1>1, <1>2, <1>7, <1>9 DEF Numbered, Data
  <2>4. \A q, r \in InPlay' : q.no < r.no => q.sndnxt < r.sndnxt
    BY <1>1, <1>2, <1>7, <1>9 DEF Numbered, Data, Connection
  <2>5. c'.buf # NULL => c'.buf.no = packets'
    BY <1>4, <1>6
  <2>6. QED BY <2>1, <2>2, <2>3, <2>4, <2>5 DEF Numbered
<1>11. QED
  BY <1>1, <1>4, <1>6, <1>8, <1>10
     DEF RInv, RunicastTypeOK, Acknowledged, InOrderOnce

LEMMA ResendRInv ==
  ASSUME RInv, Resend
  PROVE  RInv'
<1>1. /\ c \in Connection /\ InPlay \subseteq Data /\ Numbered
  BY DEF RInv, RunicastTypeOK, InPlay, Range, Connection
<1>2. c.buf \in Data /\ c.buf.no = packets /\ c.buf # NULL
  BY <1>1 DEF Resend, Numbered, Connection
<1>3. UNCHANGED <<packets, acks, sent, accepted>>
  BY DEF Resend
<1>4. /\ \/ c' = [c EXCEPT !.timer = TRUE]
         \/ c' = [Reported(c) EXCEPT !.timer = TRUE]
      /\ \/ mac' = Append(mac, c.buf) /\ air' = air
         \/ mac' = mac /\ air' = air
         \/ mac' = mac /\ mac = <<>> /\ air' = Append(air, c.buf)
  BY DEF Resend, Hand
<1>5. /\ c' \in Connection
      /\ \/ c'.sndnxt = c.sndnxt + 1 /\ c'.buf = NULL
         \/ c'.sndnxt = c.sndnxt /\ c'.buf = c.buf /\ c'.is_tx = c.is_tx
  BY <1>1, <1>4, ReportedConnection DEF Connection
<1>6. /\ InOrder' /\ mac' \in Seq(Data) /\ air' \in Seq(Data)
      /\ Range(mac') \cup Range(air') \subseteq Range(mac) \cup Range(air) \cup {c.buf}
  <2>1. \A q \in Range(mac) \cup Range(air) \cup Range(accepted) : q.no <= c.buf.no
    BY <1>1, <1>2 DEF InPlay, Numbered
  <2>2. QED BY <1>2, <1>3, <1>4, <2>1, HandOrder
<1>7. InPlay' \subseteq InPlay
  BY <1>2, <1>3, <1>5, <1>6 DEF InPlay
<1>8. Numbered'
  BY <1>3, <1>5, <1>7, NumbersKept
<1>9. QED
  BY <1>3, <1>5, <1>6, <1>8 DEF RInv, RunicastTypeOK, Acknowledged, InOrderOnce

\* The other steps of the sender take nothing to the MAC.
LEMMA SenderRInv ==
  ASSUME RInv,
         (\E max \in MaxRxmits : SendFails(max)) \/ TimerWithoutPacket \/ MacReports
  PROVE  RInv'
<1>1. /\ c \in Connection /\ mac \in Seq(Data) /\ air \in Seq(Data)
      /\ accepted \in Seq(Data) /\ InOrder
  BY DEF RInv, RunicastTypeOK
<1>2. UNCHANGED <<packets, air, acks, sent, accepted>>
  BY DEF SendFails, TimerWithoutPacket, MacReports
<1>3. /\ c' \in Connection
      /\ \/ c'.sndnxt = c.sndnxt + 1 /\ c'.buf = NULL
         \/ c'.sndnxt = c.sndnxt /\ c'.buf = c.buf /\ c'.is_tx = c.is_tx
  <2>1. CASE \E max \in MaxRxmits : SendFails(max)
    <3>1. PICK max \in MaxRxmits : SendFails(max)
      BY <2>1
    <3>2. max \in Nat
      BY RunicastAssumption
    <3>3. /\ ~c.is_tx /\ c.is_tx \in BOOLEAN
          /\ c' = [c EXCEPT !.max_rxmit = max, !.rxmit = 0, !.is_tx = FALSE]
      BY <1>1, <3>1 DEF SendFails, Begun, Connection
    <3>4. QED BY <1>1, <3>2, <3>3 DEF Connection
  <2>2. CASE TimerWithoutPacket
    BY <1>1, <2>2 DEF TimerWithoutPacket, Connection
  <2>3. CASE MacReports
    BY <1>1, <2>3, ReportedConnection DEF MacReports
  <2>4. QED BY <2>1, <2>2, <2>3
<1>4. InOrder' /\ mac' \in Seq(Data) /\ Range(mac') \subseteq Range(mac)
  <2>1. CASE mac' = mac
    BY <1>1, <1>2, <2>1 DEF InOrder
  <2>2. CASE MacReports
    <3>1. mac # <<>> /\ mac' = Tail(mac)
      BY <2>2 DEF MacReports
    <3>2. Ordered(mac') /\ Before(air, mac') /\ Before(accepted, mac')
      BY <1>1, <3>1, TailOrder DEF InOrder
    <3>3. QED BY <1>1, <1>2, <3>1, <3>2, TailRange DEF InOrder
  <2>3. QED BY <2>1, <2>2 DEF SendFails, TimerWithoutPacket
<1>5. InPlay' \subseteq InPlay
  BY <1>2, <1>3, <1>4 DEF InPlay
<1>6. Numbered'
  BY <1>2, <1>3, <1>5, NumbersKept
<1>7. QED
  BY <1>2, <1>3, <1>4, <1>6 DEF RInv, RunicastTypeOK, Acknowledged, InOrderOnce

\* An acknowledgement with the present number is that of the present packet.
LEMMA AckRInv ==
  ASSUME RInv, NEW p \in acks, AckArrives(p)
  PROVE  RInv'
<1>1. /\ c \in Connection /\ p \in Data /\ p \in InPlay /\ Numbered
  BY DEF RInv, RunicastTypeOK, InPlay
<1>2. /\ UNCHANGED <<packets, mac, air, acks, accepted>>
      /\ sent' = sent \cup {c.buf}
      /\ c' = [Cancelled(c) EXCEPT !.sndnxt = @ + 1, !.is_tx = FALSE]
  BY DEF AckArrives
<1>3. p.sndnxt = c.sndnxt
  <2>1. p.sndnxt \in Nat /\ c.sndnxt \in Nat /\ p.sndnxt <= c.sndnxt
    BY <1>1 DEF Data, Connection, Numbered
  <2>2. QED BY <2>1, EqualIds DEF AckArrives
<1>4. c.buf = p
  BY <1>1, <1>3 DEF Numbered
<1>5. c' \in Connection /\ c'.sndnxt = c.sndnxt + 1 /\ c'.buf = NULL
  <2>1. CancelledConnection(c)
    BY <1>1, CancelledIsConnection
  <2>2. QED BY <1>2, <2>1, EndedIsConnection DEF CancelledConnection
<1>6. InPlay' \subseteq InPlay
  BY <1>2, <1>5 DEF InPlay
<1>7. Numbered'
  BY <1>2, <1>5, <1>6, NumbersKept
<1>8. QED
  BY <1>2, <1>4, <1>5, <1>7
     DEF RInv, RunicastTypeOK, InOrder, Acknowledged, InOrderOnce

LEMMA TransmitRInv ==
  ASSUME RInv, Transmit
  PROVE  RInv'
<1>1. /\ c \in Connection /\ mac \in Seq(Data) /\ air \in Seq(Data)
      /\ accepted \in Seq(Data) /\ InOrder /\ mac # <<>> /\ air' = Append(air, Head(mac))
      /\ UNCHANGED <<packets, c, mac, acks, sent, accepted>>
  BY DEF RInv, RunicastTypeOK, Transmit
<1>2. Head(mac) \in Data /\ Head(mac) \in Range(mac) /\ Head(mac) = mac[1] /\ 1 \in DOMAIN mac
  BY <1>1, TailRange
<1>3. InOrder'
  <2>1. /\ \A i \in DOMAIN air : air[i].no <= Head(mac).no
        /\ \A i \in DOMAIN accepted : accepted[i].no <= Head(mac).no
    BY <1>1, <1>2 DEF InOrder, Before
  <2>2. \A i \in DOMAIN mac : Head(mac).no <= mac[i].no
    BY <1>1, <1>2 DEF InOrder, Ordered
  <2>3. Ordered(air') /\ Before(air', mac) /\ Before(accepted, air')
    BY <1>1, <1>2, <2>1, <2>2, AppendOrder DEF InOrder
  <2>4. QED BY <1>1, <2>3 DEF InOrder
<1>4. air' \in Seq(Data) /\ Range(air') = Range(air) \cup {Head(mac)}
  BY <1>1, <1>2, Appended, AppendRange
<1>5. InPlay' \subseteq InPlay
  BY <1>1, <1>2, <1>4 DEF InPlay
<1>6. Numbered'
  BY <1>1, <1>5, NumbersKept
<1>7. QED
  BY <1>1, <1>3, <1>4, <1>6 DEF RInv, RunicastTypeOK, Acknowledged, InOrderOnce

\* The receiver takes a packet for a duplicate just when it has accepted it.
LEMMA ReceiveRInv ==
  ASSUME RInv, Receive
  PROVE  RInv'
<1> DEFINE p == Head(air)
           last == Last(accepted)
<1>1. /\ c \in Connection /\ mac \in Seq(Data) /\ air \in Seq(Data)
      /\ accepted \in Seq(Data) /\ InOrder /\ air # <<>> /\ air' = Tail(air)
      /\ UNCHANGED <<packets, c, mac, sent>> /\ Numbered /\ InOrderOnce /\ Acknowledged
      /\ acks \subseteq Data
  BY DEF RInv, RunicastTypeOK, Receive
<1>2. p \in Data /\ p \in Range(air) /\ p = air[1] /\ 1 \in DOMAIN air
  BY <1>1, TailRange
<1>3. accepted # <<>> => /\ last \in Range(accepted) /\ last \in Data
                         /\ last = accepted[Len(accepted)] /\ Len(accepted) \in DOMAIN accepted
  BY <1>1 DEF Last, Range
<1>4. p \in InPlay /\ (accepted # <<>> => last \in InPlay)
  BY <1>2, <1>3 DEF InPlay
<1>5. accepted # <<>> => last.no <= p.no
  BY <1>1, <1>2, <1>3 DEF InOrder, Before
<1>6. Duplicate(p) => p = last /\ accepted # <<>>
  <2>1. SUFFICES ASSUME Duplicate(p) PROVE p = last
    BY DEF Duplicate
  <2>2. accepted # <<>> /\ Id(last.sndnxt) = Id(p.sndnxt)
    BY <2>1 DEF Duplicate
  <2>3. p.sndnxt - last.sndnxt < NumIds
    BY <2>2 DEF Receive
  <2>4. last.sndnxt <= p.sndnxt /\ last.sndnxt \in Nat /\ p.sndnxt \in Nat
    <3>1. last \in InPlay /\ last \in Data /\ p \in InPlay /\ last.no <= p.no
      BY <1>3, <1>4, <1>5, <2>2
    <3>2. last.no < p.no \/ last.no = p.no
      BY <1>2, <3>1 DEF Data
    <3>3. last.no < p.no => last.sndnxt < p.sndnxt
      BY <1>1, <3>1 DEF Numbered
    <3>4. last.no = p.no => last.sndnxt = p.sndnxt
      BY <1>1, <3>1 DEF Numbered
    <3>5. last.sndnxt \in Nat /\ p.sndnxt \in Nat
      BY <1>2, <3>1 DEF Data
    <3>6. QED BY <3>2, <3>3, <3>4, <3>5
  <2>5. last.sndnxt = p.sndnxt
    BY <2>2, <2>3, <2>4, EqualIds
  <2>6. QED BY <1>1, <1>2, <1>3, <1>4, <1>5, <2>2, <2>5 DEF Numbered, Data
<1>7. ~Duplicate(p) /\ accepted # <<>> => last.no < p.no
  <2>1. SUFFICES ASSUME ~Duplicate(p), accepted # <<>> PROVE last.no < p.no
    OBVIOUS
  <2>2. last # p
    BY <2>1 DEF Duplicate
  <2>3. last.no # p.no
    BY <1>1, <1>4, <2>1, <2>2 DEF Numbered
  <2>4. QED BY <1>2, <1>3, <1>5, <2>1, <2>3 DEF Data
<1>8. accepted' = IF Duplicate(p) THEN accepted ELSE Append(accepted, p)
  BY DEF Receive
<1>9. /\ accepted' \in Seq(Data) /\ p \in Range(accepted')
      /\ Range(accepted') = Range(accepted) \cup {p}
  <2>1. CASE Duplicate(p)
    BY <1>1, <1>3, <1>6, <1>8, <2>1
  <2>2. CASE ~Duplicate(p)
    BY <1>1, <1>2, <1>8, <2>2, Appended, AppendRange
  <2>3. QED BY <2>1, <2>2
<1>10. air' \in Seq(Data) /\ Range(air') \subseteq Range(air)
  BY <1>1, TailRange
<1>11. InOrder'
  <2>1. Ordered(air') /\ Before(air', mac) /\ Before(accepted, air')
    BY <1>1, TailOrder DEF InOrder
  <2>2. /\ \A i \in DOMAIN mac : p.no <= mac[i].no
        /\ \A i \in DOMAIN air' : p.no <= air'[i].no
    <3>1. \A i \in DOMAIN air : p.no <= air[i].no
      BY <1>1, <1>2 DEF InOrder, Ordered
    <3>2. QED BY <1>1, <1>2, <1>10, <3>1 DEF InOrder, Before, Range
  <2>3. Before(accepted', air') /\ Before(accepted', mac)
    <3>1. \A i \in DOMAIN accepted' : accepted'[i] = p \/ accepted'[i] \in Range(accepted)
      BY <1>9 DEF Range
    <3>2. QED BY <1>1, <2>1, <2>2, <3>1 DEF InOrder, Before, Range
  <2>4. QED BY <1>1, <2>1, <2>3 DEF InOrder
<1>12. InOrderOnce'
  <2>1. CASE Duplicate(p)
    BY <1>1, <1>8, <2>1 DEF InOrderOnce
  <2>2. CASE ~Duplicate(p)
    <3>1. \A i \in DOMAIN accepted : accepted[i].no < p.no
      <4>1. SUFFICES ASSUME NEW i \in DOMAIN accepted PROVE accepted[i].no < p.no
        OBVIOUS
      <4>2. accepted # <<>> /\ last.no < p.no /\ last.no \in Nat /\ p.no \in Nat
        BY <1>1, <1>2, <1>3, <1>7, <2>2 DEF Data
      <4>3. accepted[i].no \in Nat /\ i <= Len(accepted)
        <5>1. accepted[i] \in Data /\ i \in 1..Len(accepted)
          BY <1>1
        <5>2. QED BY <5>1 DEF Data
      <4>4. i = Len(accepted) \/ accepted[i].no < accepted[Len(accepted)].no
        BY <1>1, <1>3, <4>2, <4>3 DEF InOrderOnce
      <4>5. QED BY <1>3, <4>2, <4>3, <4>4
    <3>2. /\ DOMAIN accepted' = DOMAIN accepted \cup {Len(accepted) + 1}
          /\ accepted'[Len(accepted) + 1] = p
          /\ \A i \in DOMAIN accepted : accepted'[i] = accepted[i] /\ i <= Len(accepted)
          /\ Len(accepted) \in Nat
      BY <1>1, <1>2, <1>8, <2>2, Appended
    <3>3. QED BY <1>1, <3>1, <3>2 DEF InOrderOnce
  <2>3. QED BY <2>1, <2>2
<1>13. acks' \subseteq acks \cup {p} /\ acks \subseteq acks'
  BY DEF Receive
<1>14. InPlay' \subseteq InPlay
  BY <1>1, <1>2, <1>9, <1>10, <1>13 DEF InPlay
<1>15. Numbered'
  BY <1>1, <1>14, NumbersKept
<1>16. QED
  BY <1>1, <1>2, <1>9, <1>10, <1>11, <1>12, <1>13, <1>15
     DEF RInv, RunicastTypeOK, Acknowledged

(* What the sender is told was sent the receiver has accepted, once and in *)
(* order, for every width of the packet ID as long as IDs do not wrap      *)
(* between a packet and its acknowledgement or the next packet heard.      *)
THEOREM RunicastIsReliable == RunicastSpec => []Reliable
<1>1. RunicastInit => RInv
  BY InitRInv
<1>2. RInv /\ [RunicastNext]_vars => RInv'
  <2>1. ASSUME RInv, UNCHANGED vars PROVE RInv'
    BY <2>1 DEF RInv, vars, RunicastTypeOK, Numbered, InPlay, InOrder, Acknowledged,
       InOrderOnce
  <2>2. QED
    BY <2>1, SendRInv, ResendRInv, SenderRInv, AckRInv, TransmitRInv, ReceiveRInv
       DEF RunicastNext
<1>3. RInv => Reliable
  BY DEF RInv, Reliable, SentIsAccepted, Acknowledged
<1>4. QED BY <1>1, <1>2, <1>3, PTL DEF RunicastSpec

=============================================================================
