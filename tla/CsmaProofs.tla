----------------------------- MODULE CsmaProofs -----------------------------
(***************************************************************************)
(* Theorems about the CSMA MAC, for every set of receivers and every size  *)
(* of the pools and queues.                                                *)
(***************************************************************************)
EXTENDS Csma, ListLemmas

\* A listed neighbour has packets, with sequence numbers of their own.  When the
\* first is no acknowledgement, it has been sent as often as the neighbour counts.
Fair(p, n) == ~p.ack => n.transmissions <= p.attempts
DistinctSeqnos(queue) == \A i, j \in DOMAIN queue : queue[i].seqno = queue[j].seqno => i = j
Good(n) ==
  /\ n \in Neighbor /\ n.queue # <<>>
  /\ DistinctSeqnos(n.queue)
  /\ \A i \in DOMAIN n.queue : n.queue[i].attempts <= n.queue[i].max_transmissions
  /\ Fair(n.queue[1], n)

\* What passes the packet that send_list goes on with are acknowledgements.
FirstBut(n, q) ==
  \E i \in DOMAIN n.queue : /\ n.queue[i].seqno = q
                            /\ \A j \in DOMAIN n.queue : j < i => n.queue[j].ack

\* send_list goes on with a packet that is first, or the neighbour starts afresh.
GoesOn(b, q) ==
  /\ b \in neighbor_list /\ FirstBut(neighbor[b], q)
  /\ neighbor[b].queue[1].seqno = q \/ neighbor[b].transmissions = 0
Kept ==
  /\ call.at = "radio" => GoesOn(call.n, call.seqno)
  /\ call.at = "sent" /\ call.next # NULL =>
       GoesOn(call.n, call.next) /\ neighbor[call.n].transmissions = 0

Stored == {s \in neighbor_list \X Seqno : s[2] \in Queued(s[1])}
Counted == \A k \in Pool : used[k] = Cardinality(Stored)
InUse(k) == used[k] + (IF k = "queuebuf" THEN others ELSE 0)
WithinPools == \A k \in Pool : InUse(k) <= Size[k]

CsmaInv ==
  /\ CsmaTypeOK
  /\ neighbor_memb = neighbor_list
  /\ \A b \in neighbor_list : Good(neighbor[b])
  /\ \A b, d \in neighbor_list : neighbor[b].addr = neighbor[d].addr => b = d
  /\ Counted /\ WithinPools /\ NeverStuck /\ Kept /\ FullAttempts

----------------------------------------------------------------------------
(* Queues *)

\* A packet that is new joins the queue of a neighbour that is empty or good.
LEMMA EnqueueKeeps ==
  ASSUME CsmaAssumption,
         NEW n \in Neighbor, (n.queue = <<>> /\ n.transmissions = 0) \/ Good(n),
         NEW p \in Packet, p.attempts = 0, p.seqno \notin Seqnos(n.queue),
         NEW m \in Neighbor, m.queue = Enqueue(n.queue, p),
         m.transmissions = n.transmissions
  PROVE  /\ Good(m)
         /\ Seqnos(m.queue) = Seqnos(n.queue) \cup {p.seqno}
         /\ \A q : FirstBut(n, q) => FirstBut(m, q)
<1> DEFINE s == n.queue
           r == m.queue
<1>1. /\ s \in Seq(Packet) /\ Len(s) \in Nat /\ DOMAIN s = 1 .. Len(s)
      /\ \A i \in DOMAIN s : s[i] \in Packet
  BY DEF Neighbor
<1>2. /\ r \in Seq(Packet) /\ DOMAIN r = 1 .. (Len(s) + 1) /\ r # <<>>
      /\ p.ack => r[1] = p /\ \A i \in DOMAIN s : r[i + 1] = s[i]
      /\ ~p.ack => r[Len(s) + 1] = p /\ \A i \in DOMAIN s : r[i] = s[i]
  <2> HIDE DEF s
  <2>1. r = Enqueue(s, p)
    BY DEF s
  <2> HIDE DEF r
  <2>2. /\ r \in Seq(Packet) /\ Len(r) = Len(s) + 1 /\ DOMAIN r = 1 .. (Len(s) + 1)
        /\ p.ack => r[1] = p /\ \A i \in DOMAIN s : r[i + 1] = s[i]
        /\ ~p.ack => r[Len(s) + 1] = p /\ \A i \in DOMAIN s : r[i] = s[i]
    <3>1. CASE p.ack
      <4>1. r = <<p>> \o s
        BY <2>1, <3>1 DEF Enqueue
      <4>2. QED BY <1>1, <3>1, <4>1
    <3>2. CASE ~p.ack
      <4>1. r = Append(s, p)
        BY <2>1, <3>2 DEF Enqueue
      <4>2. QED BY <1>1, <3>2, <4>1
    <3>3. QED BY <3>1, <3>2
  <2>3. QED BY <1>1, <2>2
<1>3. /\ \A i \in DOMAIN s : s[i].seqno # p.seqno
      /\ DistinctSeqnos(s) /\ \A i \in DOMAIN s : s[i].attempts <= s[i].max_transmissions
      /\ s # <<>> => Fair(s[1], n)
      /\ s = <<>> => n.transmissions = 0
      /\ p.attempts <= p.max_transmissions
  <2>1. \A i \in DOMAIN s : s[i].seqno # p.seqno
    BY DEF Seqnos
  <2>2. s = <<>> => n.transmissions = 0
    BY DEF Good
  <2>3. p.attempts <= p.max_transmissions
    <3>1. p.max_transmissions \in MaxTx
      BY DEF Packet
    <3>2. p.max_transmissions \in Nat
      BY <3>1 DEF CsmaAssumption
    <3>3. QED BY <3>2
  <2>4. CASE Good(n)
    BY <2>1, <2>2, <2>3, <2>4 DEF Good
  <2>5. CASE s = <<>>
    BY <1>1, <2>1, <2>2, <2>3, <2>5 DEF DistinctSeqnos
  <2>6. QED BY <2>4, <2>5
<1> HIDE DEF s, r
<1>4. CASE p.ack
  <2>1. \A i \in DOMAIN r : (i = 1 /\ r[i] = p) \/ (i - 1 \in DOMAIN s /\ r[i] = s[i - 1])
    BY <1>1, <1>2, <1>4
  <2>2. \A i \in DOMAIN s : i + 1 \in DOMAIN r /\ r[i + 1] = s[i]
    BY <1>1, <1>2, <1>4
  <2>3. DistinctSeqnos(r)
    <3>1. SUFFICES ASSUME NEW i \in DOMAIN r, NEW j \in DOMAIN r, r[i].seqno = r[j].seqno
                   PROVE  i = j
      BY DEF DistinctSeqnos
    <3>2. i \in Nat /\ j \in Nat
      BY <1>1, <1>2
    <3>3. CASE i = 1 /\ r[i] = p
      BY <1>3, <2>1, <3>1, <3>3
    <3>4. CASE i - 1 \in DOMAIN s /\ r[i] = s[i - 1]
      <4>1. r[j] # p
        BY <1>3, <3>1, <3>4
      <4>2. j - 1 \in DOMAIN s /\ s[i - 1].seqno = s[j - 1].seqno
        BY <2>1, <3>1, <3>4, <4>1
      <4>3. i - 1 = j - 1
        BY <1>3, <3>4, <4>2 DEF DistinctSeqnos
      <4>4. QED BY <3>2, <4>3
    <3>5. QED BY <2>1, <3>3, <3>4
  <2>4. \A i \in DOMAIN r : r[i].attempts <= r[i].max_transmissions
    BY <1>3, <2>1
  <2>5. Good(m)
    BY <1>2, <1>4, <2>3, <2>4 DEF Good, Fair, r
  <2>6. Seqnos(r) = Seqnos(s) \cup {p.seqno}
    <3>1. Seqnos(r) \subseteq Seqnos(s) \cup {p.seqno}
      BY <2>1 DEF Seqnos
    <3>2. Seqnos(s) \subseteq Seqnos(r)
      BY <2>2 DEF Seqnos
    <3>3. 1 \in DOMAIN r /\ r[1] = p
      BY <1>1, <1>2, <1>4
    <3>4. p.seqno \in Seqnos(r)
      BY <3>3 DEF Seqnos
    <3>5. QED BY <3>1, <3>2, <3>4
  <2>7. ASSUME NEW q, FirstBut(n, q)
        PROVE  FirstBut(m, q)
    <3>1. PICK i \in DOMAIN s : s[i].seqno = q /\ \A j \in DOMAIN s : j < i => s[j].ack
      BY <2>7 DEF FirstBut, s
    <3>2. i + 1 \in DOMAIN r /\ r[i + 1].seqno = q
      BY <2>2, <3>1
    <3>3. \A j \in DOMAIN r : j < i + 1 => r[j].ack
      <4>1. ASSUME NEW j \in DOMAIN r, j < i + 1
            PROVE  r[j].ack
        <5>1. j \in Nat /\ i \in Nat
          BY <1>1, <1>2
        <5>2. CASE r[j] = p
          BY <1>4, <5>2
        <5>3. CASE j - 1 \in DOMAIN s /\ r[j] = s[j - 1]
          BY <3>1, <4>1, <5>1, <5>3
        <5>4. QED BY <2>1, <5>2, <5>3
      <4>2. QED BY <4>1
    <3>4. QED BY <3>2, <3>3 DEF FirstBut, r
  <2>8. QED BY <2>5, <2>6, <2>7 DEF r, s
<1>5. CASE ~p.ack
  <2>1. \A i \in DOMAIN r : (i = Len(s) + 1 /\ r[i] = p) \/ (i \in DOMAIN s /\ r[i] = s[i])
    BY <1>1, <1>2, <1>5
  <2>2. \A i \in DOMAIN s : i \in DOMAIN r /\ r[i] = s[i]
    BY <1>1, <1>2, <1>5
  <2>3. DistinctSeqnos(r)
    BY <1>1, <1>2, <1>3, <2>1 DEF DistinctSeqnos
  <2>4. \A i \in DOMAIN r : r[i].attempts <= r[i].max_transmissions
    BY <1>3, <2>1
  <2>5. Fair(r[1], m)
    <3>1. CASE s = <<>>
      BY <1>1, <1>2, <1>3, <1>5, <3>1 DEF Fair, Packet
    <3>2. CASE s # <<>>
      <4>1. 1 \in DOMAIN s
        BY <1>1, <3>2
      <4>2. QED BY <1>3, <2>2, <3>2, <4>1 DEF Fair
    <3>3. QED BY <3>1, <3>2
  <2>6. Good(m)
    BY <1>2, <2>3, <2>4, <2>5 DEF Good, r
  <2>7. Seqnos(r) = Seqnos(s) \cup {p.seqno}
    BY <1>1, <1>2, <1>5, <2>1, <2>2 DEF Seqnos
  <2>8. ASSUME NEW q, FirstBut(n, q)
        PROVE  FirstBut(m, q)
    <3>1. PICK i \in DOMAIN s : s[i].seqno = q /\ \A j \in DOMAIN s : j < i => s[j].ack
      BY <2>8 DEF FirstBut, s
    <3>2. i \in DOMAIN r /\ r[i].seqno = q
      BY <2>2, <3>1
    <3>3. \A j \in DOMAIN r : j < i => r[j].ack
      BY <1>1, <1>2, <2>1, <3>1
    <3>4. QED BY <3>2, <3>3 DEF FirstBut, r
  <2>9. QED BY <2>6, <2>7, <2>8 DEF r, s
<1>6. QED BY <1>4, <1>5

LEMMA RemovedSeqno ==
  ASSUME NEW s \in Seq(Packet), DistinctSeqnos(s), NEW i \in DOMAIN s
  PROVE  Seqnos(RemoveAt(s, i)) = Seqnos(s) \ {s[i].seqno}
<1> DEFINE r == RemoveAt(s, i)
<1>1. DOMAIN s = 1 .. Len(s) /\ Len(s) \in Nat
  OBVIOUS
<1>2. /\ DOMAIN r = 1 .. (Len(s) - 1)
      /\ \A j \in 1 .. (Len(s) - 1) : r[j] = s[IF j < i THEN j ELSE j + 1]
  BY RemoveAtFacts
<1> HIDE DEF r
<1>3. \A j \in DOMAIN r : \E l \in DOMAIN s : l # i /\ r[j] = s[l]
  BY <1>1, <1>2
<1>4. ASSUME NEW l \in DOMAIN s, l # i
      PROVE  \E j \in DOMAIN r : r[j] = s[l]
  <2>1. CASE l < i
    BY <1>1, <1>2, <2>1
  <2>2. CASE l > i
    <3>1. l - 1 \in DOMAIN r /\ r[l - 1] = s[l]
      BY <1>1, <1>2, <2>2
    <3>2. QED BY <3>1
  <2>3. QED BY <1>1, <1>4, <2>1, <2>2
<1>5. \A l \in DOMAIN s : l # i => s[l].seqno # s[i].seqno
  BY DEF DistinctSeqnos
<1>6. Seqnos(r) = Seqnos(s) \ {s[i].seqno}
  BY <1>3, <1>4, <1>5 DEF Seqnos
<1>7. QED BY <1>6 DEF r

\* A packet leaves the queue, and the neighbour starts afresh with the others.
LEMMA RemovalKeeps ==
  ASSUME CsmaAssumption, NEW n, Good(n), NEW i \in DOMAIN n.queue,
         NEW m \in Neighbor, m.queue = RemoveAt(n.queue, i), m.transmissions = 0
  PROVE  /\ m.queue # <<>> => Good(m)
         /\ FirstBut(n, n.queue[i].seqno) /\ i < Len(n.queue)
              => m.queue # <<>> /\ FirstBut(m, n.queue[i + 1].seqno)
<1> DEFINE s == n.queue
           r == m.queue
<1>1. /\ s \in Seq(Packet) /\ Len(s) \in Nat /\ DOMAIN s = 1 .. Len(s)
      /\ \A j \in DOMAIN s : s[j] \in Packet
      /\ DistinctSeqnos(s) /\ \A j \in DOMAIN s : s[j].attempts <= s[j].max_transmissions
  BY DEF Good, Neighbor
<1>2. i \in DOMAIN s /\ r = RemoveAt(s, i)
  OBVIOUS
<1> HIDE DEF s, r
<1>3. /\ r \in Seq(Packet) /\ DOMAIN r = 1 .. (Len(s) - 1)
      /\ \A j \in DOMAIN r : r[j] = s[IF j < i THEN j ELSE j + 1]
  <2>1. s \in Seq(Packet) /\ i \in DOMAIN s
    BY <1>1, <1>2
  <2>2. RemoveAt(s, i) \in Seq(Packet)
    BY <2>1, RemoveAtFacts
  <2>3. DOMAIN RemoveAt(s, i) = 1 .. (Len(s) - 1)
    BY <2>1, RemoveAtFacts
  <2>4. \A j \in 1 .. (Len(s) - 1) : RemoveAt(s, i)[j] = s[IF j < i THEN j ELSE j + 1]
    BY <2>1, RemoveAtFacts
  <2>5. QED BY <1>2, <2>2, <2>3, <2>4
<1>4. ASSUME r # <<>>
      PROVE  Good(m)
  <2>1. DistinctSeqnos(r)
    <3>1. SUFFICES ASSUME NEW j \in DOMAIN r, NEW l \in DOMAIN r,
                          r[j].seqno = r[l].seqno
                   PROVE  j = l
      BY DEF DistinctSeqnos
    <3> DEFINE f(x) == IF x < i THEN x ELSE x + 1
    <3>2. j \in Nat /\ l \in Nat /\ i \in Nat /\ f(j) \in DOMAIN s /\ f(l) \in DOMAIN s
      BY <1>1, <1>2, <1>3
    <3>3. s[f(j)].seqno = s[f(l)].seqno
      BY <1>3, <3>1
    <3>4. f(j) = f(l)
      <4> HIDE DEF f
      <4>1. QED BY <1>1, <3>2, <3>3 DEF DistinctSeqnos
    <3>5. QED BY <3>2, <3>4
  <2>2. \A j \in DOMAIN r : r[j].attempts <= r[j].max_transmissions
    BY <1>1, <1>2, <1>3
  <2>3. Fair(r[1], m)
    <3>1. 1 \in DOMAIN r
      BY <1>1, <1>3, <1>4
    <3>2. r[1] \in Packet
      BY <1>3, <3>1
    <3>3. QED BY <3>2 DEF Fair, Packet
  <2>4. QED BY <1>4, <2>1, <2>2, <2>3 DEF Good, r
<1>5. ASSUME FirstBut(n, s[i].seqno), i < Len(s)
      PROVE  r # <<>> /\ FirstBut(m, s[i + 1].seqno)
  <2>1. PICK l \in DOMAIN s : /\ s[l].seqno = s[i].seqno
                              /\ \A j \in DOMAIN s : j < l => s[j].ack
    BY <1>5 DEF FirstBut, s
  <2>2. l = i
    BY <1>1, <1>2, <2>1 DEF DistinctSeqnos
  <2>3. i \in DOMAIN r /\ r[i] = s[i + 1]
    BY <1>1, <1>2, <1>3, <1>5
  <2>4. \A j \in DOMAIN r : j < i => r[j].ack
    BY <1>1, <1>2, <1>3, <2>1, <2>2
  <2>5. QED BY <2>3, <2>4 DEF FirstBut, r
<1>6. QED BY <1>4, <1>5 DEF r, s

LEMMA EnqueueType ==
  ASSUME NEW s \in Seq(Packet), NEW p \in Packet
  PROVE  Enqueue(s, p) \in Seq(Packet)
  BY DEF Enqueue

\* A packet that is sent again stays where it is, with one attempt more.
LEMMA RexmitKeeps ==
  ASSUME CsmaAssumption, NEW n, Good(n), NEW k \in Neighbor, k.queue = n.queue,
         NEW i \in DOMAIN n.queue, FirstBut(n, n.queue[i].seqno),
         i = 1 \/ n.transmissions = 0, k.transmissions <= n.transmissions + 1,
         k.transmissions < n.queue[i].max_transmissions,
         NEW m \in Neighbor, m.transmissions = k.transmissions,
         m.queue = [n.queue EXCEPT ![i] = Tried(n.queue[i])]
  PROVE  Good(m) /\ Seqnos(m.queue) = Seqnos(n.queue)
<1> DEFINE s == n.queue
           r == m.queue
<1>1. /\ s \in Seq(Packet) /\ Len(s) \in Nat /\ DOMAIN s = 1 .. Len(s)
      /\ \A j \in DOMAIN s : s[j] \in Packet
      /\ DistinctSeqnos(s) /\ \A j \in DOMAIN s : s[j].attempts <= s[j].max_transmissions
      /\ Fair(s[1], n) /\ s # <<>> /\ n.transmissions \in Nat /\ k.transmissions \in Nat
  BY DEF Good, Neighbor
<1>2. /\ r \in Seq(Packet) /\ DOMAIN r = DOMAIN s
      /\ \A j \in DOMAIN s : r[j] = IF j = i THEN Tried(s[i]) ELSE s[j]
  BY DEF Neighbor
<1> HIDE DEF s, r
<1>3. i \in DOMAIN s
  BY DEF s
<1>4. \A x \in Packet : x.max_transmissions \in Nat /\ x.attempts \in Nat
  BY DEF CsmaAssumption, Packet
<1>5. /\ Tried(s[i]).seqno = s[i].seqno /\ Tried(s[i]).ack = s[i].ack
      /\ Tried(s[i]).max_transmissions = s[i].max_transmissions
      /\ Tried(s[i]).attempts = IF s[i].attempts < s[i].max_transmissions
                                THEN s[i].attempts + 1 ELSE s[i].attempts
  BY <1>1, <1>3 DEF Tried, Packet
<1>6. \A j \in DOMAIN s : r[j].seqno = s[j].seqno
  BY <1>2, <1>5
<1>7. DistinctSeqnos(r)
  BY <1>1, <1>2, <1>6 DEF DistinctSeqnos
<1>8. \A j \in DOMAIN r : r[j].attempts <= r[j].max_transmissions
  <2>1. Tried(s[i]).attempts <= Tried(s[i]).max_transmissions
    BY <1>1, <1>3, <1>4, <1>5
  <2>2. QED BY <1>1, <1>2, <2>1
<1>9. Fair(r[1], m)
  <2>1. 1 \in DOMAIN s
    BY <1>1
  <2>2. CASE i = 1
    <3>1. ASSUME ~s[1].ack PROVE k.transmissions <= Tried(s[1]).attempts
      <4>1. n.transmissions <= s[1].attempts
        BY <1>1, <3>1 DEF Fair
      <4>2. k.transmissions < s[1].max_transmissions
        BY <2>2 DEF s
      <4>3. s[1].attempts \in Nat /\ s[1].max_transmissions \in Nat
        BY <1>1, <1>4, <2>1
      <4>4. QED BY <1>1, <1>5, <2>2, <4>1, <4>2, <4>3
    <3>2. r[1] = Tried(s[1]) /\ Tried(s[1]).ack = s[1].ack
      BY <1>2, <1>5, <2>1, <2>2
    <3>3. QED BY <3>1, <3>2 DEF Fair
  <2>3. CASE i # 1
    <3>1. PICK l \in DOMAIN s : /\ s[l].seqno = s[i].seqno
                                /\ \A j \in DOMAIN s : j < l => s[j].ack
      BY DEF FirstBut, s
    <3>2. l = i
      BY <1>1, <1>3, <3>1 DEF DistinctSeqnos
    <3>3. s[1].ack
      BY <1>1, <1>3, <2>1, <2>3, <3>1, <3>2
    <3>4. r[1] = s[1]
      BY <1>2, <2>1, <2>3
    <3>5. QED BY <3>3, <3>4 DEF Fair
  <2>4. QED BY <2>2, <2>3
<1>10. Good(m)
  <2>1. r # <<>>
    BY <1>1, <1>2
  <2>2. QED BY <1>7, <1>8, <1>9, <2>1 DEF Good, r
<1>11. Seqnos(r) = Seqnos(s)
  BY <1>2, <1>6 DEF Seqnos
<1>12. QED BY <1>10, <1>11 DEF r, s

\* A data packet that is given up has been sent as often as it may.
LEMMA GivenUp ==
  ASSUME CsmaAssumption, NEW n, Good(n), NEW k \in Neighbor,
         NEW i \in DOMAIN n.queue, ~n.queue[i].ack,
         i = 1 \/ n.transmissions = 0, k.transmissions <= n.transmissions + 1,
         k.transmissions >= n.queue[i].max_transmissions
  PROVE  Tried(n.queue[i]).attempts = Tried(n.queue[i]).max_transmissions
<1> DEFINE p == n.queue[i]
<1>1. /\ p \in Packet /\ p.attempts <= p.max_transmissions
      /\ n.transmissions \in Nat /\ k.transmissions \in Nat
  BY DEF Good, Neighbor
<1>2. i = 1 => n.transmissions <= p.attempts
  BY DEF Good, Fair
<1>3. /\ k.transmissions >= p.max_transmissions
      /\ i = 1 \/ n.transmissions = 0
  OBVIOUS
<1> HIDE DEF p
<1>4. p.max_transmissions \in Nat \ {0} /\ p.attempts \in Nat
  <2>1. p.max_transmissions \in MaxTx /\ p.attempts \in Nat
    BY <1>1 DEF Packet
  <2>2. QED BY <2>1 DEF CsmaAssumption
<1>5. /\ Tried(p).max_transmissions = p.max_transmissions
      /\ Tried(p).attempts = IF p.attempts < p.max_transmissions
                             THEN p.attempts + 1 ELSE p.attempts
  BY <1>1 DEF Tried, Packet
<1>6. Tried(p).attempts = Tried(p).max_transmissions
  BY <1>1, <1>2, <1>3, <1>4, <1>5
<1>7. QED BY <1>6 DEF p

LEMMA PositionFacts ==
  ASSUME NEW b, NEW q \in Queued(b)
  PROVE  /\ PositionOf(b, q) \in DOMAIN neighbor[b].queue
         /\ neighbor[b].queue[PositionOf(b, q)].seqno = q
  BY DEF Queued, Seqnos, PositionOf

----------------------------------------------------------------------------
(* Letters *)

Letters(s) == [i \in DOMAIN s |-> LetterOf(s[i])]

LEMMA LettersFacts ==
  ASSUME NEW s \in Seq(Packet)
  PROVE  /\ Letters(s) \in Seq(Letter) /\ Len(Letters(s)) = Len(s)
         /\ \A i \in DOMAIN s : Letters(s)[i] = LetterOf(s[i]) /\ LetterOf(s[i]) \in Letter
<1>1. DOMAIN s = 1 .. Len(s) /\ Len(s) \in Nat /\ \A i \in DOMAIN s : s[i] \in Packet
  OBVIOUS
<1>2. \A p \in Packet : LetterOf(p) \in Letter
  BY DEF Packet, Letter, LetterOf
<1>3. Letters(s) = [i \in 1 .. Len(s) |-> LetterOf(s[i])]
  BY <1>1 DEF Letters
<1> HIDE DEF Letters, LetterOf, Letter
<1>4. Letters(s) \in Seq(Letter) /\ Len(Letters(s)) = Len(s)
  BY <1>1, <1>2, <1>3
<1>5. QED BY <1>1, <1>2, <1>3, <1>4

LEMMA LettersEnqueue ==
  ASSUME NEW s \in Seq(Packet), NEW p \in Packet
  PROVE  Letters(Enqueue(s, p)) = IF p.ack THEN <<LetterOf(p)>> \o Letters(s)
                                  ELSE Append(Letters(s), LetterOf(p))
<1> DEFINE x == Letters(s)
           y == LetterOf(p)
           r == Enqueue(s, p)
<1>1. r \in Seq(Packet) /\ y \in Letter
  BY EnqueueType DEF Packet, Letter, LetterOf
<1>2. /\ x \in Seq(Letter) /\ Len(x) = Len(s) /\ DOMAIN s = 1 .. Len(s) /\ Len(s) \in Nat
      /\ \A i \in 1 .. Len(s) : x[i] = LetterOf(s[i])
  BY LettersFacts
<1>3. Letters(r) \in Seq(Letter) /\ Len(Letters(r)) = Len(r) /\ DOMAIN r = 1 .. Len(r)
  BY <1>1, LettersFacts
<1>4. \A i \in DOMAIN r : Letters(r)[i] = LetterOf(r[i])
  BY <1>1, LettersFacts
<1>5. CASE p.ack
  <2>1. r = <<p>> \o s
    BY <1>5 DEF Enqueue
  <2> HIDE DEF x, r
  <2>2. /\ Len(r) = Len(s) + 1
        /\ \A i \in 1 .. (Len(s) + 1) : r[i] = IF i = 1 THEN p ELSE s[i - 1]
    BY <1>2, <2>1
  <2>3. \A i \in 1 .. (Len(s) + 1) : Letters(r)[i] = IF i = 1 THEN y ELSE x[i - 1]
    <3>1. ASSUME NEW i \in 1 .. (Len(s) + 1)
          PROVE  Letters(r)[i] = IF i = 1 THEN y ELSE x[i - 1]
      <4>1. Letters(r)[i] = LetterOf(r[i])
        BY <1>2, <1>3, <1>4, <2>2
      <4>2. CASE i = 1
        BY <2>2, <4>1, <4>2
      <4>3. CASE i # 1
        BY <1>2, <2>2, <4>1, <4>3
      <4>4. QED BY <4>2, <4>3
    <3>2. QED BY <3>1
  <2> HIDE DEF y
  <2>4. /\ <<y>> \o x \in Seq(Letter) /\ Len(<<y>> \o x) = Len(s) + 1
        /\ \A i \in 1 .. (Len(s) + 1) : (<<y>> \o x)[i] = IF i = 1 THEN y ELSE x[i - 1]
    BY <1>1, <1>2
  <2>5. Letters(r) = <<y>> \o x
    BY <1>2, <1>3, <2>2, <2>3, <2>4, SeqEqual
  <2>6. QED BY <1>5, <2>5 DEF x, y, r
<1>6. CASE ~p.ack
  <2>1. r = Append(s, p)
    BY <1>6 DEF Enqueue
  <2> HIDE DEF x, r
  <2>2. /\ Len(r) = Len(s) + 1
        /\ \A i \in 1 .. (Len(s) + 1) : r[i] = IF i = Len(s) + 1 THEN p ELSE s[i]
    BY <1>2, <2>1
  <2>3. \A i \in 1 .. (Len(s) + 1) : Letters(r)[i] = IF i = Len(s) + 1 THEN y ELSE x[i]
    <3>1. ASSUME NEW i \in 1 .. (Len(s) + 1)
          PROVE  Letters(r)[i] = IF i = Len(s) + 1 THEN y ELSE x[i]
      <4>1. Letters(r)[i] = LetterOf(r[i])
        BY <1>2, <1>3, <1>4, <2>2
      <4>2. CASE i = Len(s) + 1
        BY <2>2, <4>1, <4>2
      <4>3. CASE i # Len(s) + 1
        BY <1>2, <2>2, <4>1, <4>3
      <4>4. QED BY <4>2, <4>3
    <3>2. QED BY <3>1
  <2> HIDE DEF y
  <2>4. /\ Append(x, y) \in Seq(Letter) /\ Len(Append(x, y)) = Len(s) + 1
        /\ \A i \in 1 .. (Len(s) + 1) : Append(x, y)[i] = IF i = Len(s) + 1 THEN y ELSE x[i]
    BY <1>1, <1>2
  <2>5. Letters(r) = Append(x, y)
    BY <1>2, <1>3, <2>2, <2>3, <2>4, SeqEqual
  <2>6. QED BY <1>6, <2>5 DEF x, y, r
<1>7. QED BY <1>5, <1>6

LEMMA LettersRemove ==
  ASSUME NEW s \in Seq(Packet), NEW i \in DOMAIN s
  PROVE  Letters(RemoveAt(s, i)) = RemoveAt(Letters(s), i)
<1> DEFINE x == Letters(s)
           r == RemoveAt(s, i)
           t == RemoveAt(x, i)
<1>1. /\ x \in Seq(Letter) /\ Len(x) = Len(s) /\ DOMAIN s = 1 .. Len(s) /\ Len(s) \in Nat
      /\ \A j \in 1 .. Len(s) : x[j] = LetterOf(s[j])
  BY LettersFacts
<1>2. r \in Seq(Packet) /\ Len(r) = Len(s) - 1
  BY RemoveAtFacts
<1>3. \A j \in 1 .. (Len(s) - 1) : r[j] = s[IF j < i THEN j ELSE j + 1]
  BY RemoveAtFacts
<1>4. /\ Letters(r) \in Seq(Letter) /\ Len(Letters(r)) = Len(s) - 1
      /\ \A j \in 1 .. (Len(s) - 1) : Letters(r)[j] = LetterOf(r[j])
  <2> HIDE DEF r
  <2>1. Letters(r) \in Seq(Letter) /\ Len(Letters(r)) = Len(r)
    BY <1>2, LettersFacts
  <2>2. \A j \in DOMAIN r : Letters(r)[j] = LetterOf(r[j])
    BY <1>2, LettersFacts
  <2>3. QED BY <1>2, <2>1, <2>2
<1>5. i \in DOMAIN x /\ DOMAIN x = 1 .. Len(s)
  <2> HIDE DEF x
  <2>1. QED BY <1>1
<1>6. t \in Seq(Letter) /\ Len(t) = Len(s) - 1
  <2> HIDE DEF x
  <2>1. QED BY <1>1, <1>5, RemoveAtFacts
<1>7. \A j \in 1 .. (Len(s) - 1) : t[j] = x[IF j < i THEN j ELSE j + 1]
  <2> HIDE DEF x
  <2>1. QED BY <1>1, <1>5, RemoveAtFacts
<1> HIDE DEF x, r, t
<1>8. \A j \in 1 .. (Len(s) - 1) : Letters(r)[j] = t[j]
  BY <1>1, <1>3, <1>4, <1>5, <1>7
<1>9. Letters(r) = t
  BY <1>1, <1>4, <1>6, <1>8, SeqEqual
<1>10. QED BY <1>9 DEF r, t, x

----------------------------------------------------------------------------
(* Pools *)

LEMMA EntryFacts ==
  ASSUME CsmaAssumption, CsmaTypeOK, neighbor_memb = neighbor_list, NEW a, HasEntry(a)
  PROVE  /\ EntryBlock(a) \in Block
         /\ Known(a) # {} => EntryBlock(a) \in Known(a)
         /\ Known(a) = {} => EntryBlock(a) \notin neighbor_list
<1>1. CASE Known(a) # {}
  <2>1. EntryBlock(a) \in Known(a)
    BY <1>1 DEF EntryBlock
  <2>2. QED BY <1>1, <2>1 DEF Known, CsmaTypeOK
<1>2. CASE Known(a) = {}
  <2>1. FreeBlocks # {} /\ FreeBlocks \subseteq Nat
    BY <1>2 DEF HasEntry, FreeBlocks, Block
  <2>2. \E b \in FreeBlocks : \A d \in FreeBlocks : b <= d
    BY <2>1, NatMinimum
  <2>3. EntryBlock(a) \in FreeBlocks
    BY <1>2, <2>2 DEF EntryBlock
  <2>4. QED BY <1>2, <2>3 DEF FreeBlocks, CsmaTypeOK
<1>3. QED BY <1>1, <1>2

LEMMA StoredIsFinite ==
  ASSUME CsmaAssumption, CsmaTypeOK
  PROVE  IsFiniteSet(Stored)
<1>1. IsFiniteSet(Block) /\ IsFiniteSet(Seqno)
  BY FS_Interval DEF Block, Seqno, CsmaAssumption
<1>2. IsFiniteSet(Block \X Seqno)
  BY <1>1, FS_Product
<1>3. Stored \subseteq Block \X Seqno
  BY DEF Stored, CsmaTypeOK, Block
<1>4. QED BY <1>2, <1>3, FS_Subset

LEMMA CountedUp ==
  ASSUME CsmaAssumption, CsmaTypeOK, Counted, NEW x, x \notin Stored,
         Stored' = Stored \cup {x}, used' = Change(Pool, {})
  PROVE  used' \in [Pool -> Nat] /\ Counted'
<1>1. Cardinality(Stored') = Cardinality(Stored) + 1 /\ Cardinality(Stored) \in Nat
  BY StoredIsFinite, FS_AddElement, FS_CardinalityType
<1>2. \A k \in Pool : used'[k] = used[k] + 1 /\ used[k] \in Nat
  BY DEF Change, CsmaTypeOK
<1>3. used' \in [Pool -> Nat]
  BY DEF Change, CsmaTypeOK
<1>4. QED BY <1>1, <1>2, <1>3 DEF Counted

LEMMA CountedDown ==
  ASSUME CsmaAssumption, CsmaTypeOK, Counted, NEW x \in Stored,
         Stored' = Stored \ {x}, used' = Change({}, Pool)
  PROVE  used' \in [Pool -> Nat] /\ Counted'
<1>1. /\ Cardinality(Stored') = Cardinality(Stored) - 1
      /\ Cardinality(Stored) \in Nat /\ Cardinality(Stored') \in Nat
  <2>1. IsFiniteSet(Stored)
    BY StoredIsFinite
  <2>2. IsFiniteSet(Stored')
    BY <2>1, FS_RemoveElement
  <2>3. QED BY <2>1, <2>2, FS_RemoveElement, FS_CardinalityType
<1>2. \A k \in Pool : used'[k] = used[k] - 1 /\ used[k] = Cardinality(Stored)
  BY DEF Change, CsmaTypeOK, Counted
<1>3. \A k \in Pool : used'[k] \in Nat
  BY <1>1, <1>2
<1>4. used' \in [Pool -> Nat]
  <2>1. used' = [k \in Pool |-> used'[k]]
    BY DEF Change
  <2>2. QED BY <1>3, <2>1
<1>5. QED BY <1>1, <1>2, <1>4 DEF Counted

----------------------------------------------------------------------------
(* The service *)

\* One entry per address: what is pending to it is its entry's queue.
OneEntry == \A b, d \in neighbor_list : neighbor[b].addr = neighbor[d].addr => b = d
PendingIsQueued ==
  /\ \A b \in neighbor_list, a \in Addr :
       neighbor[b].addr = a => Pending[a] = Letters(neighbor[b].queue)
  /\ \A a \in Addr : (\A b \in neighbor_list : neighbor[b].addr # a) => Pending[a] = <<>>
  /\ Pending = [a \in Addr |-> Pending[a]]

LEMMA PendingFacts == OneEntry => PendingIsQueued
<1> SUFFICES ASSUME OneEntry PROVE PendingIsQueued
  OBVIOUS
<1>1. ASSUME NEW b \in neighbor_list, NEW a \in Addr, neighbor[b].addr = a
      PROVE  Pending[a] = Letters(neighbor[b].queue)
  <2>1. Known(a) = {b}
    BY <1>1 DEF Known, OneEntry
  <2>2. EntryBlock(a) = b
    BY <2>1 DEF EntryBlock
  <2>3. QED BY <2>1, <2>2 DEF Pending, Letters
<1>2. ASSUME NEW a \in Addr, \A b \in neighbor_list : neighbor[b].addr # a
      PROVE  Pending[a] = <<>>
  <2>1. Known(a) = {}
    BY <1>2 DEF Known
  <2>2. QED BY <2>1 DEF Pending
<1>3. QED BY <1>1, <1>2 DEF PendingIsQueued, Pending

LEMMA PendingFactsNext == OneEntry' => PendingIsQueued'
  BY PendingFacts, PTL

\* A step that touches one entry leaves what is pending to other addresses alone.
LEMMA OthersPending ==
  ASSUME OneEntry, OneEntry', NEW b, NEW c \in Addr,
         \A d : d # b => (d \in neighbor_list' <=> d \in neighbor_list),
         \A d \in neighbor_list : d # b => neighbor'[d] = neighbor[d],
         b \in neighbor_list => neighbor[b].addr # c,
         b \in neighbor_list' => neighbor'[b].addr # c
  PROVE  Pending'[c] = Pending[c]
<1>1. PendingIsQueued /\ PendingIsQueued'
  BY PendingFacts, PendingFactsNext
<1>2. CASE \E d \in neighbor_list : neighbor[d].addr = c
  <2>1. PICK d \in neighbor_list : neighbor[d].addr = c
    BY <1>2
  <2>2. d # b /\ d \in neighbor_list' /\ neighbor'[d] = neighbor[d]
    BY <2>1
  <2>3. Pending[c] = Letters(neighbor[d].queue)
    BY <1>1, <2>1 DEF PendingIsQueued
  <2>4. Pending'[c] = Letters(neighbor'[d].queue)
    BY <1>1, <2>1, <2>2 DEF PendingIsQueued
  <2>5. QED BY <2>2, <2>3, <2>4
<1>3. CASE \A d \in neighbor_list : neighbor[d].addr # c
  <2>1. \A d \in neighbor_list' : neighbor'[d].addr # c
    <3>1. ASSUME NEW d \in neighbor_list'
          PROVE  neighbor'[d].addr # c
      <4>1. CASE d = b
        BY <4>1
      <4>2. CASE d # b
        BY <1>3, <4>2
      <4>3. QED BY <4>1, <4>2
    <3>2. QED BY <3>1
  <2>2. QED BY <1>1, <1>3, <2>1 DEF PendingIsQueued
<1>4. QED BY <1>2, <1>3

\* What the entry of an address holds before and after a step.
Holds(b, a, s) == /\ b \in neighbor_list => neighbor[b].addr = a /\ neighbor[b].queue = s
                  /\ b \notin neighbor_list => s = <<>> /\ \A d \in neighbor_list :
                                                            neighbor[d].addr # a

LEMMA OnePending ==
  ASSUME OneEntry, OneEntry', NEW b, NEW a \in Addr, NEW s, NEW r,
         \A d : d # b => (d \in neighbor_list' <=> d \in neighbor_list),
         \A d \in neighbor_list : d # b => neighbor'[d] = neighbor[d],
         Holds(b, a, s), (Holds(b, a, r))'
  PROVE  /\ Pending[a] = Letters(s)
         /\ Pending' = [Pending EXCEPT ![a] = Letters(r)]
<1>1. PendingIsQueued /\ PendingIsQueued'
  BY PendingFacts, PendingFactsNext
<1>2. Letters(<<>>) = <<>>
  BY DEF Letters
<1>3. Pending[a] = Letters(s)
  BY <1>1, <1>2 DEF PendingIsQueued, Holds
<1>4. Pending'[a] = Letters(r)
  BY <1>1, <1>2 DEF PendingIsQueued, Holds
<1>5. \A c \in Addr : c # a => Pending'[c] = Pending[c]
  BY OthersPending DEF Holds
<1>6. Pending' = [c \in Addr |-> Pending'[c]] /\ Pending = [c \in Addr |-> Pending[c]]
  BY <1>1 DEF PendingIsQueued
<1> HIDE DEF Pending
<1>7. QED BY <1>3, <1>4, <1>5, <1>6

----------------------------------------------------------------------------
(* The actions *)

LEMMA InitHasInv == CsmaAssumption /\ CsmaInit => CsmaInv
<1> SUFFICES ASSUME CsmaAssumption, CsmaInit PROVE CsmaInv
  OBVIOUS
<1>1. CsmaTypeOK
  <2>1. seqno \in 0..(NumSeqno - 1) /\ others \in 0..NumQueuebufs
    BY DEF CsmaInit, CsmaAssumption
  <2>2. call \in Call
    BY DEF CsmaInit, Call
  <2>3. QED BY <2>1, <2>2 DEF CsmaInit, CsmaTypeOK
<1>2. Counted
  <2>1. Stored = {}
    BY DEF Stored, CsmaInit
  <2>2. QED BY <2>1, FS_EmptySet DEF Counted, CsmaInit
<1>3. call.at = "idle" /\ neighbor_list = {} /\ transmit_timer = {}
  BY DEF CsmaInit, Idle
<1>4. NeverStuck /\ Kept /\ FullAttempts
  BY <1>3 DEF NeverStuck, Kept, FullAttempts
<1>5. WithinPools
  BY DEF WithinPools, InUse, CsmaInit, Size, Pool, CsmaAssumption
<1>6. QED BY <1>1, <1>2, <1>3, <1>4, <1>5 DEF CsmaInv, CsmaInit

LEMMA SamePending ==
  ASSUME UNCHANGED <<neighbor_memb, neighbor_list, neighbor>>
  PROVE  Pending' = Pending
  BY DEF Pending, Known, EntryBlock, FreeBlocks

LEMMA AcceptKeeps ==
  ASSUME CsmaAssumption, CsmaInv, call.at # "radio", NotInUse,
         NEW a \in Addr, NEW p \in Packet, p.seqno = NewSeqno, p.attempts = 0,
         Accept(a, p), seqno' = (NewSeqno + 1) % NumSeqno, UNCHANGED <<others, call>>
  PROVE  CsmaInv' /\ Service!Take(a, LetterOf(p))
<1>0. PICK b, n : b = EntryBlock(a) /\ n = Entry(a)
  OBVIOUS
<1> DEFINE m == [n EXCEPT !.queue = Enqueue(n.queue, p)]
<1>1. HasEntry(a) /\ CsmaTypeOK /\ neighbor_memb = neighbor_list
  BY DEF Accept, Accepted, CsmaInv
<1>2. /\ b \in Block
      /\ Known(a) # {} => b \in neighbor_list /\ neighbor[b].addr = a /\ n = neighbor[b]
      /\ Known(a) = {} => b \notin neighbor_list /\ n = NewNeighbor(a)
  BY <1>0, <1>1, EntryFacts DEF Known, Entry
<1>3. /\ n \in Neighbor /\ n.addr = a
      /\ (n.queue = <<>> /\ n.transmissions = 0) \/ Good(n)
      /\ p.seqno \notin Seqnos(n.queue)
      /\ b \in neighbor_list => n = neighbor[b]
  <2>1. CASE Known(a) # {}
    <3>1. Good(n) /\ b \in neighbor_list /\ n = neighbor[b] /\ n.addr = a
      BY <1>2, <2>1 DEF CsmaInv
    <3>2. p.seqno \notin Seqnos(n.queue)
      BY <3>1 DEF NotInUse, Queued
    <3>3. QED BY <3>1, <3>2 DEF Good
  <2>2. CASE Known(a) = {}
    <3>1. n = NewNeighbor(a) /\ b \notin neighbor_list
      BY <1>2, <2>2
    <3>2. <<>> \in Seq(Packet) /\ DOMAIN <<>> = {}
      OBVIOUS
    <3>3. n \in Neighbor /\ n.addr = a /\ n.queue = <<>> /\ n.transmissions = 0
      BY <3>1, <3>2 DEF NewNeighbor, Neighbor, MIN_BE
    <3>4. QED BY <3>1, <3>2, <3>3 DEF Seqnos
  <2>3. QED BY <2>1, <2>2
<1>4. /\ neighbor_list' = neighbor_list \cup {b} /\ neighbor_memb' = neighbor_memb \cup {b}
      /\ neighbor' = [neighbor EXCEPT ![b] = m]
      /\ used' = Change(Pool, {}) /\ transmit_timer' = SetTimerIfFirst(b, p)
  BY <1>0 DEF Accept
<1>5. /\ m \in Neighbor /\ m.queue = Enqueue(n.queue, p)
      /\ m.transmissions = n.transmissions /\ m.addr = a
  <2>1. n.queue \in Seq(Packet)
    BY <1>3 DEF Neighbor
  <2>2. Enqueue(n.queue, p) \in Seq(Packet)
    BY <2>1, EnqueueType
  <2>3. QED BY <1>3, <2>2 DEF Neighbor
<1> HIDE DEF m
<1>6. /\ Good(m) /\ Seqnos(m.queue) = Seqnos(n.queue) \cup {p.seqno}
      /\ \A q : FirstBut(n, q) => FirstBut(m, q)
  BY <1>3, <1>5, EnqueueKeeps
<1>7. /\ neighbor'[b] = m
      /\ \A d \in neighbor_list : d # b => neighbor'[d] = neighbor[d]
      /\ b \in Block /\ neighbor_list \subseteq Block
  BY <1>1, <1>2, <1>4 DEF CsmaTypeOK
<1>8. Counted' /\ used' \in [Pool -> Nat]
  <2> DEFINE x == <<b, p.seqno>>
  <2>1. p.seqno \in Seqno
    BY DEF Packet
  <2>2. x \notin Stored
    <3>1. b \in neighbor_list => Queued(b) = Seqnos(n.queue)
      BY <1>3 DEF Queued
    <3>2. QED BY <1>3, <3>1 DEF Stored
  <2>3. Stored' = Stored \cup {x}
    <3>1. \A d \in neighbor_list : d # b => (Queued(d))' = Queued(d)
      BY <1>7 DEF Queued
    <3>2. (Queued(b))' = Seqnos(n.queue) \cup {p.seqno}
      <4>1. (Queued(b))' = Seqnos(neighbor'[b].queue)
        BY DEF Queued
      <4>2. QED BY <1>6, <1>7, <4>1
    <3>3. b \in neighbor_list => Queued(b) = Seqnos(n.queue)
      BY <1>3 DEF Queued
    <3>4. b \notin neighbor_list => Seqnos(n.queue) = {}
      <4>1. b \notin neighbor_list => n = NewNeighbor(a)
        BY <1>2
      <4>2. QED BY <4>1 DEF NewNeighbor, Seqnos
    <3>5. Stored' = {s \in neighbor_list' \X Seqno : s[2] \in (Queued(s[1]))'}
      BY DEF Stored, Queued
    <3>6. QED BY <1>4, <2>1, <3>1, <3>2, <3>3, <3>4, <3>5 DEF Stored
  <2>4. Counted
    BY DEF CsmaInv
  <2> HIDE DEF x
  <2>5. QED BY <1>1, <1>4, <2>2, <2>3, <2>4, CountedUp
<1>9. transmit_timer' = transmit_timer \/ transmit_timer' = transmit_timer \cup {b}
  BY <1>4 DEF SetTimerIfFirst
<1>10. CsmaTypeOK'
  <2>1. seqno' \in 0..(NumSeqno - 1)
    BY <1>1 DEF CsmaTypeOK, CsmaAssumption, NewSeqno
  <2>2. neighbor' \in [Block -> Neighbor \cup {NULL}]
    BY <1>1, <1>4, <1>5 DEF CsmaTypeOK
  <2>3. QED BY <1>1, <1>4, <1>7, <1>8, <1>9, <2>1, <2>2 DEF CsmaTypeOK
<1>11. \A d \in neighbor_list' : Good(neighbor'[d])
  BY <1>4, <1>6, <1>7 DEF CsmaInv
<1>12. \A d, e \in neighbor_list' : neighbor'[d].addr = neighbor'[e].addr => d = e
  <2>1. \A d \in neighbor_list : d # b => neighbor[d].addr # a
    <3>1. CASE b \in neighbor_list
      BY <1>2, <3>1 DEF CsmaInv
    <3>2. CASE b \notin neighbor_list
      BY <1>2, <3>2 DEF Known
    <3>3. QED BY <3>1, <3>2
  <2>2. QED BY <1>4, <1>5, <1>7, <2>1 DEF CsmaInv
<1>13. NeverStuck'
  <2>1. transmit_timer' \subseteq neighbor_list'
    BY <1>4, <1>9 DEF CsmaInv, NeverStuck
  <2>2. b \in transmit_timer'
    <3>1. CASE p.ack \/ b \notin neighbor_list \/ neighbor[b].queue = <<>>
      BY <1>4, <3>1 DEF SetTimerIfFirst
    <3>2. CASE b \in neighbor_list
      BY <1>9, <3>2 DEF CsmaInv, NeverStuck
    <3>3. QED BY <3>1, <3>2
  <2>3. \A d \in neighbor_list : d \in transmit_timer'
    BY <1>9 DEF CsmaInv, NeverStuck
  <2>4. QED BY <1>4, <2>1, <2>2, <2>3 DEF NeverStuck
<1>14. Kept'
  <2>1. SUFFICES ASSUME call.at = "sent", call.next # NULL
                 PROVE  (GoesOn(call.n, call.next))' /\ neighbor'[call'.n].transmissions = 0
    BY DEF Kept
  <2>2. /\ call.n \in neighbor_list /\ FirstBut(neighbor[call.n], call.next)
        /\ neighbor[call.n].transmissions = 0
    BY <2>1 DEF CsmaInv, Kept, GoesOn
  <2>3. /\ call.n \in neighbor_list' /\ FirstBut(neighbor'[call.n], call.next)
        /\ neighbor'[call.n].transmissions = 0
    <3>1. CASE call.n = b
      BY <1>3, <1>4, <1>5, <1>6, <1>7, <2>2, <3>1
    <3>2. CASE call.n # b
      BY <1>4, <1>7, <2>2, <3>2
    <3>3. QED BY <3>1, <3>2
  <2>4. QED BY <2>3 DEF GoesOn
<1>15. FullAttempts'
  BY DEF CsmaInv, FullAttempts
<1>16. WithinPools'
  <2>1. \A k \in Pool : ~Full(k)
    <3>1. Taken = Pool
      BY DEF Accept, Accepted
    <3>2. QED BY <3>1 DEF Taken, Pool
  <2>2. \A k \in Pool : /\ used'[k] = used[k] + 1 /\ used[k] \in Nat
                       /\ Size[k] \in Nat /\ InUse(k) <= Size[k] /\ InUse(k) # Size[k]
    BY <1>1, <1>4, <2>1
    DEF CsmaInv, WithinPools, InUse, Full, Size, Pool, Change, CsmaTypeOK, CsmaAssumption
  <2>3. others \in Nat
    BY <1>1 DEF CsmaTypeOK
  <2>4. QED BY <2>2, <2>3 DEF WithinPools, InUse
<1>17. CsmaInv'
  BY <1>1, <1>4, <1>8, <1>10, <1>11, <1>12, <1>13, <1>14, <1>15, <1>16 DEF CsmaInv
<1>18. Pending' = [Pending EXCEPT ![a] = IF p.ack THEN <<LetterOf(p)>> \o Pending[a]
                                         ELSE Append(Pending[a], LetterOf(p))]
  <2>1. OneEntry /\ OneEntry'
    BY <1>12 DEF CsmaInv, OneEntry
  <2>2. Holds(b, a, n.queue)
    <3>1. CASE Known(a) # {}
      BY <1>2, <3>1 DEF Holds
    <3>2. CASE Known(a) = {}
      BY <1>2, <3>2 DEF Holds, Known, NewNeighbor
    <3>3. QED BY <3>1, <3>2
  <2>3. (Holds(b, a, m.queue))'
    BY <1>4, <1>5, <1>7 DEF Holds
  <2>4. /\ Pending[a] = Letters(n.queue)
        /\ Pending' = [Pending EXCEPT ![a] = Letters(m.queue)]
    BY <1>4, <1>7, <2>1, <2>2, <2>3, OnePending
  <2>5. n.queue \in Seq(Packet)
    BY <1>3 DEF Neighbor
  <2>6. Letters(m.queue) = IF p.ack THEN <<LetterOf(p)>> \o Letters(n.queue)
                           ELSE Append(Letters(n.queue), LetterOf(p))
    BY <1>5, <2>5, LettersEnqueue
  <2>7. QED BY <2>4, <2>6
<1>19. QED
  BY <1>17, <1>18 DEF Service!Take, LetterOf, Answering

LEMMA RejectKeeps ==
  ASSUME CsmaAssumption, CsmaInv, NEW a, Reject(a), seqno' = (NewSeqno + 1) % NumSeqno,
         UNCHANGED <<others, call>>
  PROVE  CsmaInv' /\ UNCHANGED Service!vars
<1>1. used' = used
  <2>1. used \in [Pool -> Nat]
    BY DEF CsmaInv, CsmaTypeOK
  <2>2. ASSUME used' = Change(Taken, GivesBack(Taken))
        PROVE  used' = used
    BY <2>1, <2>2 DEF Change, GivesBack
  <2>3. QED BY <2>2 DEF Reject
<1>2. /\ neighbor_list' = neighbor_list /\ neighbor_memb' = neighbor_memb
      /\ neighbor' = neighbor /\ transmit_timer' = transmit_timer
  BY DEF Reject
<1>3. CsmaTypeOK'
  <2>1. seqno' \in 0..(NumSeqno - 1)
    BY DEF CsmaInv, CsmaTypeOK, CsmaAssumption, NewSeqno
  <2>2. QED BY <1>1, <1>2, <2>1 DEF CsmaInv, CsmaTypeOK
<1>4. Counted' /\ WithinPools' /\ NeverStuck' /\ Kept' /\ FullAttempts'
  BY <1>1, <1>2
  DEF CsmaInv, Counted, Stored, Queued, WithinPools, InUse, NeverStuck, Kept, GoesOn,
      FullAttempts
<1>5. UNCHANGED Service!vars
  BY <1>2, SamePending DEF Service!vars, Answering
<1>6. QED BY <1>2, <1>3, <1>4, <1>5 DEF CsmaInv

LEMMA OthersKeep ==
  ASSUME CsmaAssumption, CsmaInv, Others
  PROVE  CsmaInv' /\ UNCHANGED Service!vars
<1>1. UNCHANGED <<neighbor_memb, neighbor_list, neighbor, used, transmit_timer, seqno, call>>
  BY DEF Others
<1>2. /\ \A k \in Pool : used[k] \in Nat /\ Size[k] \in Nat
      /\ others \in Nat /\ "queuebuf" \in Pool /\ Size["queuebuf"] = NumQueuebufs
  BY DEF CsmaInv, CsmaTypeOK, Size, Pool, CsmaAssumption
<1>3. WithinPools' /\ others' \in Nat
  <2>1. CASE OthersTake
    <3>1. InUse("queuebuf") # Size["queuebuf"] /\ others' = others + 1
      BY <2>1 DEF OthersTake, Full, InUse
    <3>2. QED BY <1>1, <1>2, <3>1 DEF CsmaInv, WithinPools, InUse
  <2>2. CASE OthersFree
    <3>1. others > 0 /\ others' = others - 1
      BY <2>2 DEF OthersFree
    <3>2. QED BY <1>1, <1>2, <3>1 DEF CsmaInv, WithinPools, InUse
  <2>3. QED BY <2>1, <2>2 DEF Others
<1>4. others' \in 0..NumQueuebufs
  <2>1. used["queuebuf"] + others' <= NumQueuebufs
    BY <1>1, <1>2, <1>3 DEF WithinPools, InUse
  <2>2. QED BY <1>2, <1>3, <2>1 DEF CsmaAssumption
<1>5. CsmaTypeOK'
  BY <1>1, <1>4 DEF CsmaInv, CsmaTypeOK
<1>6. Counted' /\ NeverStuck' /\ Kept' /\ FullAttempts'
  BY <1>1 DEF CsmaInv, Counted, Stored, Queued, NeverStuck, Kept, GoesOn, FullAttempts
<1>7. UNCHANGED Service!vars
  BY <1>1, SamePending DEF Service!vars, Answering
<1>8. QED BY <1>1, <1>3, <1>5, <1>6, <1>7 DEF CsmaInv

LEMMA CallbackKeeps ==
  ASSUME CsmaAssumption, CsmaInv, CallbackReturns
  PROVE  CsmaInv' /\ Service!Return
<1>1. /\ UNCHANGED <<neighbor_memb, neighbor_list, neighbor, used, transmit_timer, others, seqno>>
      /\ call.at = "sent" /\ call' = SendNext(call.n, call.next)
  BY DEF CallbackReturns
<1>2. call.n \in Block /\ call.next \in Seqno \cup {NULL}
  BY <1>1 DEF CsmaInv, CsmaTypeOK, Call, Idle
<1>3. Service!Return
  <2>1. Pending' = Pending
    BY <1>1, SamePending
  <2>2. call'.at # "sent"
    BY <1>1 DEF SendNext, Idle
  <2>3. Answering = [packet |-> LetterOf(call.packet), status |-> call.status]
    BY <1>1 DEF Answering
  <2>4. Answering # Idle
    BY <2>3 DEF Idle
  <2>5. Answering' = Idle
    BY <2>2 DEF Answering
  <2>6. QED BY <2>1, <2>4, <2>5 DEF Service!Return
<1>4. CASE call.next = NULL
  <2>1. call' = Idle
    BY <1>1, <1>4 DEF SendNext
  <2>2. call'.at = "idle" /\ call' \in Call
    BY <2>1 DEF Idle, Call
  <2>3. CsmaTypeOK'
    BY <1>1, <2>2 DEF CsmaInv, CsmaTypeOK
  <2>4. Counted' /\ WithinPools' /\ NeverStuck' /\ Kept' /\ FullAttempts'
    BY <1>1, <2>2
    DEF CsmaInv, Counted, Stored, Queued, WithinPools, InUse, NeverStuck, Kept, FullAttempts
  <2>5. QED BY <1>1, <1>3, <2>3, <2>4 DEF CsmaInv
<1>5. CASE call.next # NULL
  <2>1. call' = [at |-> "radio", n |-> call.n, seqno |-> call.next]
    BY <1>1, <1>5 DEF SendNext
  <2>2. /\ call'.at = "radio" /\ call'.n = call.n /\ call'.seqno = call.next
        /\ call' \in Call
    BY <1>2, <1>5, <2>1 DEF Call
  <2>3. CsmaTypeOK'
    BY <1>1, <2>2 DEF CsmaInv, CsmaTypeOK
  <2>4. (GoesOn(call.n, call.seqno))'
    <3>1. GoesOn(call.n, call.next)
      BY <1>1, <1>5 DEF CsmaInv, Kept
    <3>2. QED BY <1>1, <2>2, <3>1 DEF GoesOn
  <2>5. Counted' /\ WithinPools' /\ NeverStuck' /\ Kept' /\ FullAttempts'
    BY <1>1, <2>2, <2>4
    DEF CsmaInv, Counted, Stored, Queued, WithinPools, InUse, NeverStuck, Kept, FullAttempts
  <2>6. QED BY <1>1, <1>3, <2>3, <2>5 DEF CsmaInv
<1>6. QED BY <1>4, <1>5

LEMMA TransmitKeeps ==
  ASSUME CsmaAssumption, CsmaInv, NEW b \in Block, TransmitPacketList(b)
  PROVE  CsmaInv' /\ UNCHANGED Service!vars
<1>1. /\ UNCHANGED <<neighbor_memb, neighbor_list, neighbor, used, others, seqno>>
      /\ call.at = "idle" /\ b \in transmit_timer /\ transmit_timer' = transmit_timer \ {b}
  BY DEF TransmitPacketList, Idle
<1>2. b \in neighbor_list /\ Good(neighbor[b])
  BY <1>1 DEF CsmaInv, NeverStuck
<1> DEFINE q == neighbor[b].queue[1].seqno
<1>3. 1 \in DOMAIN neighbor[b].queue /\ q \in Seqno /\ q # NULL
  <2>1. neighbor[b].queue \in Seq(Packet) /\ neighbor[b].queue # <<>>
    BY <1>2 DEF Good, Neighbor
  <2>2. 1 \in DOMAIN neighbor[b].queue /\ neighbor[b].queue[1] \in Packet
    BY <2>1
  <2>3. QED BY <2>2 DEF Packet, CsmaAssumption
<1>4. call' = [at |-> "radio", n |-> b, seqno |-> q]
  BY <1>2, <1>3 DEF TransmitPacketList, SendNext, Good
<1>5. FirstBut(neighbor[b], q)
  <2>1. \A j \in DOMAIN neighbor[b].queue : ~(j < 1)
    <3>1. DOMAIN neighbor[b].queue \subseteq Nat \ {0}
      BY <1>2 DEF Good, Neighbor
    <3>2. QED BY <3>1
  <2>2. QED BY <1>3, <2>1 DEF FirstBut
<1> HIDE DEF q
<1>6. call'.at = "radio" /\ call'.n = b /\ call'.seqno = q /\ call' \in Call
  BY <1>3, <1>4 DEF Call
<1>7. CsmaTypeOK'
  BY <1>1, <1>6 DEF CsmaInv, CsmaTypeOK
<1>8. GoesOn(b, q)
  BY <1>2, <1>5 DEF GoesOn, q
<1>9. Counted' /\ WithinPools' /\ FullAttempts' /\ NeverStuck'
  BY <1>1, <1>6
  DEF CsmaInv, Counted, Stored, Queued, WithinPools, InUse, NeverStuck, FullAttempts
<1>10. Kept'
  BY <1>1, <1>6, <1>8 DEF Kept, GoesOn
<1>11. UNCHANGED Service!vars
  BY <1>1, <1>6, SamePending DEF Service!vars, Answering
<1>12. QED BY <1>1, <1>7, <1>9, <1>10, <1>11 DEF CsmaInv

\* The packet that is in the radio, where n is its neighbour.
LEMMA RadioFacts ==
  ASSUME CsmaAssumption, CsmaInv, call.at = "radio",
         NEW b, b = call.n, NEW q, q = call.seqno, NEW n, n = neighbor[b],
         NEW i, i = PositionOf(b, q)
  PROVE  /\ b \in neighbor_list /\ b \in Block /\ q \in Seqno /\ Good(n)
         /\ i \in DOMAIN n.queue /\ n.queue[i].seqno = q /\ q \in Queued(b)
         /\ FirstBut(n, n.queue[i].seqno)
         /\ i = 1 \/ n.transmissions = 0
<1>1. GoesOn(b, q)
  BY DEF CsmaInv, Kept
<1>2. b \in neighbor_list /\ b \in Block /\ Good(n) /\ FirstBut(n, q)
  BY <1>1 DEF GoesOn, CsmaInv, CsmaTypeOK
<1>3. q \in Seqno
  BY DEF CsmaInv, CsmaTypeOK, Call, Idle
<1>4. q \in Queued(b)
  BY <1>2 DEF FirstBut, Queued, Seqnos
<1>5. i \in DOMAIN n.queue /\ n.queue[i].seqno = q
  BY <1>4, PositionFacts
<1>6. n.queue[1].seqno = q => i = 1
  <2>1. n.queue \in Seq(Packet) /\ n.queue # <<>> /\ DistinctSeqnos(n.queue)
    BY <1>2 DEF Good, Neighbor
  <2>2. 1 \in DOMAIN n.queue
    BY <2>1
  <2>3. QED BY <1>5, <2>1, <2>2 DEF DistinctSeqnos
<1>7. QED BY <1>1, <1>2, <1>3, <1>4, <1>5, <1>6 DEF GoesOn

LEMMA TxDoneKeeps ==
  ASSUME CsmaAssumption, CsmaInv, call.at = "radio",
         NEW b, b = call.n, NEW q, q = call.seqno, NEW n, n = neighbor[b],
         NEW k \in Neighbor, k.queue = n.queue, k.addr = n.addr,
         k.transmissions <= n.transmissions + 1, NEW status \in Result,
         status \in {"NOACK", "COLLISION"}
           => k.transmissions >= PacketOf(b, q).max_transmissions,
         TxDone(b, k, q, status), UNCHANGED <<others, seqno>>
  PROVE  CsmaInv' /\ Service!Next
<1>1. PICK i : i = PositionOf(b, q)
  OBVIOUS
<1>2. /\ b \in neighbor_list /\ b \in Block /\ q \in Seqno /\ Good(n)
      /\ i \in DOMAIN n.queue /\ n.queue[i].seqno = q /\ q \in Queued(b)
      /\ FirstBut(n, n.queue[i].seqno)
      /\ i = 1 \/ n.transmissions = 0
  BY <1>1, RadioFacts
<1>3. PICK p : p = n.queue[i]
  OBVIOUS
<1>4. PICK rest : rest = RemoveAt(n.queue, i)
  OBVIOUS
<1>5. PICK m : m = StartsAfresh(k, rest)
  OBVIOUS
<1>6. PICK next : next = GoesOnWith(b, q, status)
  OBVIOUS
<1>7. /\ used' = Change({}, Pool)
      /\ rest # <<>> => /\ neighbor' = [neighbor EXCEPT ![b] = m]
                        /\ transmit_timer' = transmit_timer \cup {b}
                        /\ UNCHANGED <<neighbor_memb, neighbor_list>>
      /\ rest = <<>> => /\ neighbor' = [neighbor EXCEPT ![b] = NULL]
                        /\ transmit_timer' = transmit_timer \ {b}
                        /\ neighbor_memb' = neighbor_memb \ {b}
                        /\ neighbor_list' = neighbor_list \ {b}
      /\ call' = [at |-> "sent", n |-> b, packet |-> Tried(p), status |-> status,
                  next |-> next]
  BY <1>1, <1>3, <1>4, <1>5, <1>6 DEF TxDone, FreePacket, IsEmpty, PacketOf
<1>8. /\ Seqnos(rest) = Seqnos(n.queue) \ {q}
      /\ m.addr = k.addr /\ m.queue = rest /\ m.transmissions = 0 /\ m \in Neighbor
      /\ rest # <<>> => Good(m)
      /\ i < Len(n.queue) => rest # <<>> /\ FirstBut(m, n.queue[i + 1].seqno)
  <2>1. n.queue \in Seq(Packet) /\ DistinctSeqnos(n.queue)
    BY <1>2 DEF Good, Neighbor
  <2>2. rest \in Seq(Packet) /\ Seqnos(rest) = Seqnos(n.queue) \ {q}
    BY <1>2, <1>4, <2>1, RemoveAtFacts, RemovedSeqno
  <2>3. m.addr = k.addr /\ m.queue = rest /\ m.transmissions = 0 /\ m \in Neighbor
    BY <1>5, <2>2 DEF StartsAfresh, Neighbor, MIN_BE
  <2>4. /\ m.queue # <<>> => Good(m)
        /\ FirstBut(n, n.queue[i].seqno) /\ i < Len(n.queue)
             => m.queue # <<>> /\ FirstBut(m, n.queue[i + 1].seqno)
    BY <1>2, <1>4, <2>3, RemovalKeeps
  <2>5. QED BY <1>2, <2>2, <2>3, <2>4
<1>9. /\ n.queue \in Seq(Packet) /\ n.queue \in [1 .. Len(n.queue) -> Packet]
      /\ Len(n.queue) \in Nat
  BY <1>2 DEF Good, Neighbor
<1>10. p \in Packet /\ Tried(p) \in Packet /\ Tried(p).ack = p.ack
  <2>1. p \in Packet
    BY <1>2, <1>3, <1>9
  <2>2. QED BY <2>1 DEF Tried, Packet
<1>11. next # NULL => /\ i < Len(n.queue) /\ next = n.queue[i + 1].seqno /\ next \in Seqno
  <2>1. ASSUME next # NULL
        PROVE  i < Len(n.queue) /\ next = n.queue[i + 1].seqno
    BY <1>1, <1>6, <2>1 DEF GoesOnWith, NextAfterAny
  <2>2. ASSUME next # NULL
        PROVE  n.queue[i + 1] \in Packet
    BY <1>2, <1>9, <2>1, <2>2
  <2>3. QED BY <2>1, <2>2 DEF Packet
<1>12. /\ call'.at = "sent" /\ call'.n = b /\ call'.packet = Tried(p)
       /\ call'.status = status /\ call'.next = next /\ call' \in Call
  BY <1>2, <1>7, <1>10, <1>11 DEF Call
<1>13. /\ CsmaTypeOK /\ neighbor_memb = neighbor_list /\ neighbor_list \subseteq Block
       /\ \A d \in neighbor_list : Good(neighbor[d])
       /\ \A d, e \in neighbor_list : neighbor[d].addr = neighbor[e].addr => d = e
  BY DEF CsmaInv, CsmaTypeOK
<1>14. \A d \in neighbor_list : d # b => neighbor'[d] = neighbor[d]
  BY <1>2, <1>7, <1>13 DEF CsmaTypeOK
<1>15. rest # <<>> => neighbor'[b] = m
  BY <1>2, <1>7, <1>13 DEF CsmaTypeOK
<1>16. Counted' /\ used' \in [Pool -> Nat]
  <2>1. \A d \in neighbor_list : d # b => (Queued(d))' = Queued(d)
    BY <1>14 DEF Queued
  <2>2. Queued(b) = Seqnos(n.queue)
    BY DEF Queued
  <2>3. rest # <<>> => (Queued(b))' = Seqnos(n.queue) \ {q}
    BY <1>8, <1>15 DEF Queued
  <2>4. rest = <<>> => Seqnos(n.queue) \subseteq {q}
    <3>1. Seqnos(<<>>) = {}
      BY DEF Seqnos
    <3>2. QED BY <1>8, <3>1
  <2>5. Stored' = {s \in neighbor_list' \X Seqno : s[2] \in (Queued(s[1]))'}
    BY DEF Stored, Queued
  <2>6. <<b, q>> \in Stored
    BY <1>2 DEF Stored
  <2>7. Stored' = Stored \ {<<b, q>>}
    BY <1>2, <1>7, <2>1, <2>2, <2>3, <2>4, <2>5 DEF Stored
  <2>8. Counted
    BY DEF CsmaInv
  <2>9. QED BY <1>7, <1>13, <2>6, <2>7, <2>8, CountedDown
<1>17. CsmaTypeOK'
  <2>1. neighbor' \in [Block -> Neighbor \cup {NULL}]
    BY <1>7, <1>8, <1>13 DEF CsmaTypeOK
  <2>2. QED BY <1>2, <1>7, <1>12, <1>13, <1>16, <2>1 DEF CsmaTypeOK
<1>18. neighbor_memb' = neighbor_list'
  BY <1>7, <1>13
<1>19. \A d \in neighbor_list' : Good(neighbor'[d])
  BY <1>7, <1>8, <1>13, <1>14, <1>15
<1>20. \A d, e \in neighbor_list' : neighbor'[d].addr = neighbor'[e].addr => d = e
  BY <1>7, <1>8, <1>13, <1>14, <1>15
<1>21. NeverStuck'
  <2>1. \A d \in neighbor_list : d = b \/ d \in transmit_timer
    BY DEF CsmaInv, NeverStuck
  <2>2. transmit_timer \subseteq neighbor_list
    BY DEF CsmaInv, NeverStuck
  <2>3. QED BY <1>2, <1>7, <2>1, <2>2 DEF NeverStuck
<1>22. Kept'
  <2>1. SUFFICES ASSUME next # NULL
                 PROVE  (GoesOn(b, next))' /\ neighbor'[b].transmissions = 0
    BY <1>12 DEF Kept
  <2>2. rest # <<>> /\ FirstBut(m, next)
    BY <1>8, <1>11, <2>1
  <2>3. QED BY <1>2, <1>7, <1>8, <1>15, <2>2 DEF GoesOn
<1>23. FullAttempts'
  <2>1. SUFFICES ASSUME status \in {"NOACK", "COLLISION"}, ~p.ack
                 PROVE  Tried(p).attempts = Tried(p).max_transmissions
    BY <1>10, <1>12 DEF FullAttempts
  <2>2. k.transmissions >= n.queue[i].max_transmissions
    BY <1>1, <2>1 DEF PacketOf
  <2>3. QED BY <1>2, <1>3, <2>1, <2>2, GivenUp
<1>24. WithinPools'
  <2>1. \A j \in Pool : /\ used'[j] = used[j] - 1 /\ used[j] \in Nat /\ Size[j] \in Nat
                        /\ InUse(j) <= Size[j]
    BY <1>7, <1>13 DEF CsmaInv, WithinPools, Size, Pool, Change, CsmaTypeOK, CsmaAssumption
  <2>2. others \in Nat
    BY <1>13 DEF CsmaTypeOK
  <2>3. QED BY <2>1, <2>2 DEF WithinPools, InUse
<1>25. CsmaInv'
  BY <1>16, <1>17, <1>18, <1>19, <1>20, <1>21, <1>22, <1>23, <1>24 DEF CsmaInv
<1>26. PICK a \in Addr : a = n.addr
  BY <1>2 DEF Good, Neighbor
<1>27. /\ Pending[a] = Letters(n.queue)
       /\ Pending' = [Pending EXCEPT ![a] = Letters(rest)]
  <2>1. OneEntry /\ OneEntry'
    BY <1>13, <1>20 DEF OneEntry
  <2>2. Holds(b, a, n.queue)
    BY <1>2, <1>26 DEF Holds
  <2>3. \A d : d # b => (d \in neighbor_list' <=> d \in neighbor_list)
    BY <1>7
  <2>4. (Holds(b, a, rest))'
    <3>1. CASE rest # <<>>
      BY <1>2, <1>7, <1>8, <1>15, <1>26, <3>1 DEF Holds
    <3>2. CASE rest = <<>>
      BY <1>2, <1>7, <1>13, <1>14, <1>26, <3>2 DEF Holds
    <3>3. QED BY <3>1, <3>2
  <2>5. PICK s : s = n.queue
    OBVIOUS
  <2>6. /\ Pending[a] = Letters(s)
        /\ Pending' = [Pending EXCEPT ![a] = Letters(rest)]
    BY <1>14, <2>1, <2>2, <2>3, <2>4, <2>5, OnePending
  <2>7. QED BY <2>5, <2>6
<1>28. Letters(rest) = SubSeq(Pending[a], 1, i - 1)
                         \o SubSeq(Pending[a], i + 1, Len(Pending[a]))
  BY <1>2, <1>4, <1>9, <1>27, LettersRemove DEF RemoveAt
<1>29. i \in DOMAIN Pending[a] /\ Pending[a][i] = LetterOf(p)
  <2>1. DOMAIN Letters(n.queue) = DOMAIN n.queue
    BY DEF Letters
  <2>2. QED BY <1>2, <1>3, <1>9, <1>27, <2>1, LettersFacts
<1>30. Service!Turn(a, i)
  <2>1. PICK l \in DOMAIN n.queue : /\ n.queue[l].seqno = q
                                    /\ \A j \in DOMAIN n.queue : j < l => n.queue[j].ack
    BY <1>2 DEF FirstBut
  <2>2. l = i
    BY <1>2, <2>1 DEF Good, DistinctSeqnos
  <2>3. \A j \in 1 .. (i - 1) : j \in DOMAIN n.queue /\ n.queue[j].ack
    BY <1>2, <1>9, <2>1, <2>2
  <2>4. \A j \in DOMAIN n.queue : Pending[a][j] = LetterOf(n.queue[j])
    BY <1>9, <1>27, LettersFacts
  <2>5. \A j \in 1 .. (i - 1) : Pending[a][j].ack
    <3>1. ASSUME NEW j \in 1 .. (i - 1)
          PROVE  Pending[a][j].ack
      <4>1. n.queue[j].ack /\ Pending[a][j] = LetterOf(n.queue[j])
        BY <2>3, <2>4
      <4>2. LetterOf(n.queue[j]).ack
        BY <4>1, Zenon DEF LetterOf
      <4>3. QED BY <4>1, <4>2
    <3>2. QED BY <3>1
  <2>6. QED BY <2>5 DEF Service!Turn
<1>31. Answering' = [packet |-> Pending[a][i], status |-> status]
  <2>1. LetterOf(Tried(p)) = LetterOf(p)
    BY <1>10 DEF LetterOf, Tried, Packet
  <2>2. QED BY <1>12, <1>29, <2>1 DEF Answering
<1>32. Service!Answer(a, i, status)
  BY <1>27, <1>28, <1>30, <1>31 DEF Service!Answer
<1>33. QED
  BY <1>25, <1>29, <1>32 DEF Service!Next

LEMMA RexmitGoesOn ==
  ASSUME CsmaAssumption, CsmaInv, call.at = "radio",
         NEW b, b = call.n, NEW q, q = call.seqno, NEW n, n = neighbor[b],
         NEW k \in Neighbor, k.queue = n.queue, k.addr = n.addr,
         k.transmissions <= n.transmissions + 1, NEW status \in Result, status # "OK",
         k.transmissions < PacketOf(b, q).max_transmissions,
         Rexmit(b, k, q, status), UNCHANGED <<others, seqno>>
  PROVE  CsmaInv' /\ UNCHANGED Service!vars
<1>1. PICK i : i = PositionOf(b, q)
  OBVIOUS
<1>2. /\ b \in neighbor_list /\ b \in Block /\ q \in Seqno /\ Good(n)
      /\ i \in DOMAIN n.queue /\ n.queue[i].seqno = q /\ q \in Queued(b)
      /\ FirstBut(n, n.queue[i].seqno)
      /\ i = 1 \/ n.transmissions = 0
  BY <1>1, RadioFacts
<1>3. PICK m : m = [k EXCEPT !.queue[i] = Tried(@)]
  OBVIOUS
<1>4. /\ UNCHANGED <<neighbor_memb, neighbor_list, used>>
      /\ neighbor' = [neighbor EXCEPT ![b] = m]
      /\ transmit_timer' = transmit_timer \cup {b}
      /\ call' = Idle
  BY <1>1, <1>3 DEF Rexmit, GoesOnWith, SendNext
<1>5. /\ m.queue = [n.queue EXCEPT ![i] = Tried(n.queue[i])]
      /\ m.addr = k.addr /\ m.transmissions = k.transmissions /\ m \in Neighbor
  <2>1. k.queue \in Seq(Packet) /\ i \in DOMAIN k.queue
    BY <1>2 DEF Neighbor
  <2>2. k.queue[i] \in Packet
    BY <2>1
  <2>3. Tried(k.queue[i]) \in Packet
    BY <2>2 DEF Tried, Packet
  <2>4. [k.queue EXCEPT ![i] = Tried(k.queue[i])] \in Seq(Packet)
    BY <2>1, <2>3
  <2>5. /\ m.queue = [k.queue EXCEPT ![i] = Tried(k.queue[i])]
        /\ m.addr = k.addr /\ m.transmissions = k.transmissions /\ m \in Neighbor
    BY <1>3, <2>4 DEF Neighbor
  <2>6. QED BY <2>5
<1>6. Good(m) /\ Seqnos(m.queue) = Seqnos(n.queue)
  <2>1. k.transmissions < n.queue[i].max_transmissions
    BY <1>1 DEF PacketOf
  <2>2. QED BY <1>2, <1>5, <2>1, RexmitKeeps
<1>7. /\ CsmaTypeOK /\ neighbor_memb = neighbor_list /\ neighbor_list \subseteq Block
      /\ \A d \in neighbor_list : Good(neighbor[d])
      /\ \A d, e \in neighbor_list : neighbor[d].addr = neighbor[e].addr => d = e
  BY DEF CsmaInv, CsmaTypeOK
<1>8. neighbor'[b] = m /\ \A d \in neighbor_list : d # b => neighbor'[d] = neighbor[d]
  BY <1>2, <1>4, <1>7 DEF CsmaTypeOK
<1>9. call'.at = "idle" /\ call' \in Call
  BY <1>4 DEF Idle, Call
<1>10. CsmaTypeOK'
  <2>1. neighbor' \in [Block -> Neighbor \cup {NULL}]
    BY <1>4, <1>5, <1>7 DEF CsmaTypeOK
  <2>2. QED BY <1>2, <1>4, <1>7, <1>9, <2>1 DEF CsmaTypeOK
<1>11. Counted' /\ WithinPools'
  <2>1. \A d \in neighbor_list : (Queued(d))' = Queued(d)
    <3>1. ASSUME NEW d \in neighbor_list
          PROVE  (Queued(d))' = Queued(d)
      <4>1. CASE d = b
        BY <1>6, <1>8, <4>1 DEF Queued
      <4>2. CASE d # b
        BY <1>8, <4>2 DEF Queued
      <4>3. QED BY <4>1, <4>2
    <3>2. QED BY <3>1
  <2>2. Stored' = {s \in neighbor_list' \X Seqno : s[2] \in (Queued(s[1]))'}
    BY DEF Stored, Queued
  <2>3. Stored' = Stored
    BY <1>4, <2>1, <2>2 DEF Stored
  <2>4. Counted'
    BY <1>4, <2>3 DEF CsmaInv, Counted
  <2>5. WithinPools'
    BY <1>4 DEF CsmaInv, WithinPools, InUse
  <2>6. QED BY <2>4, <2>5
<1>12. \A d \in neighbor_list' : Good(neighbor'[d])
  BY <1>4, <1>6, <1>7, <1>8
<1>13. \A d, e \in neighbor_list' : neighbor'[d].addr = neighbor'[e].addr => d = e
  <2>1. \A d \in neighbor_list : neighbor'[d].addr = neighbor[d].addr
    BY <1>5, <1>8
  <2>2. QED BY <1>4, <1>7, <2>1
<1>14. NeverStuck'
  BY <1>2, <1>4 DEF CsmaInv, NeverStuck
<1>15. Kept' /\ FullAttempts'
  BY <1>9 DEF Kept, FullAttempts
<1>16. CsmaInv'
  BY <1>4, <1>7, <1>10, <1>11, <1>12, <1>13, <1>14, <1>15 DEF CsmaInv
<1>17. PICK a \in Addr : a = n.addr
  BY <1>2 DEF Good, Neighbor
<1>18. Letters(m.queue) = Letters(n.queue)
  <2>1. n.queue \in Seq(Packet) /\ i \in DOMAIN n.queue
    BY <1>2 DEF Good, Neighbor
  <2>2. DOMAIN m.queue = DOMAIN n.queue
    BY <1>5
  <2>3. \A j \in DOMAIN n.queue : LetterOf(m.queue[j]) = LetterOf(n.queue[j])
    <3>1. n.queue[i] \in Packet
      BY <2>1
    <3>2. LetterOf(Tried(n.queue[i])) = LetterOf(n.queue[i])
      BY <3>1 DEF LetterOf, Tried, Packet
    <3>3. QED BY <1>5, <2>1, <3>2
  <2>4. QED BY <2>2, <2>3, Zenon DEF Letters
<1>19. Pending' = Pending
  <2>1. OneEntry /\ OneEntry'
    BY <1>7, <1>13 DEF OneEntry
  <2>2. Holds(b, a, n.queue)
    BY <1>2, <1>17 DEF Holds
  <2>3. (Holds(b, a, m.queue))'
    BY <1>2, <1>4, <1>5, <1>8, <1>17 DEF Holds
  <2>4. /\ Pending[a] = Letters(n.queue)
        /\ Pending' = [Pending EXCEPT ![a] = Letters(m.queue)]
    BY <1>4, <1>8, <2>1, <2>2, <2>3, OnePending
  <2>5. Pending = [c \in Addr |-> Pending[c]]
    BY <2>1, PendingFacts DEF PendingIsQueued
  <2> HIDE DEF Pending
  <2>6. QED BY <1>18, <2>4, <2>5
<1>20. UNCHANGED Service!vars
  BY <1>9, <1>19 DEF Service!vars, Answering
<1>21. QED BY <1>16, <1>20

LEMMA CountedAttempts ==
  ASSUME NEW n \in Neighbor, NEW k \in {AfterNoack(n), AfterCollision(n)}
  PROVE  /\ k \in Neighbor /\ k.queue = n.queue /\ k.addr = n.addr
         /\ k.transmissions <= n.transmissions + 1
<1>1. n.transmissions \in Nat /\ n.collisions + 1 \in Nat
  BY DEF Neighbor
<1>2. PICK t \in Nat : t = n.transmissions + 1
  BY <1>1
<1>3. PICK m : m = [n EXCEPT !.collisions = MIN_BE]
  OBVIOUS
<1>4. m \in Neighbor /\ m.queue = n.queue /\ m.addr = n.addr /\ m.transmissions = n.transmissions
  BY <1>3 DEF Neighbor, MIN_BE
<1>5. ASSUME k = [m EXCEPT !.transmissions = t]
      PROVE  k \in Neighbor /\ k.queue = m.queue /\ k.addr = m.addr /\ k.transmissions = t
  BY <1>4, <1>5 DEF Neighbor
<1>6. CASE k = AfterNoack(n)
  <2>1. k = [m EXCEPT !.transmissions = t]
    BY <1>2, <1>3, <1>6, Zenon DEF AfterNoack
  <2>2. QED BY <1>1, <1>2, <1>4, <1>5, <2>1
<1>7. CASE k = AfterCollision(n)
  <2>1. CASE n.collisions + 1 > MAX_BACKOFF
    <3>1. k = [m EXCEPT !.transmissions = t]
      BY <1>2, <1>3, <1>7, <2>1, Zenon DEF AfterCollision
    <3>2. QED BY <1>1, <1>2, <1>4, <1>5, <3>1
  <2>2. CASE ~(n.collisions + 1 > MAX_BACKOFF)
    BY <1>1, <1>7, <2>2 DEF AfterCollision, Neighbor
  <2>3. QED BY <2>1, <2>2
<1>8. QED BY <1>6, <1>7

LEMMA PacketSentKeeps ==
  ASSUME CsmaAssumption, CsmaInv, NEW r \in Result, PacketSent(r)
  PROVE  CsmaInv' /\ [Service!Next]_Service!vars
<1>1. PICK b, q, n : b = call.n /\ q = call.seqno /\ n = neighbor[b]
  OBVIOUS
<1>2. /\ call.at = "radio" /\ UNCHANGED <<others, seqno>>
      /\ \/ r = "NOACK" /\ RetryOrGiveUp(b, AfterNoack(n), q, r)
         \/ r = "COLLISION" /\ RetryOrGiveUp(b, AfterCollision(n), q, r)
         \/ r \in {"OK", "ERR"} /\ TxDone(b, n, q, r)
  BY <1>1 DEF PacketSent
<1>3. n \in Neighbor /\ PacketOf(b, q).max_transmissions \in Nat
  <2>1. /\ Good(n) /\ PositionOf(b, q) \in DOMAIN n.queue
    BY <1>1, <1>2, RadioFacts
  <2>2. n.queue \in Seq(Packet) /\ PacketOf(b, q) = n.queue[PositionOf(b, q)]
    BY <1>1, <2>1 DEF Good, Neighbor, PacketOf
  <2>3. PacketOf(b, q) \in Packet
    BY <2>1, <2>2
  <2>4. PacketOf(b, q).max_transmissions \in MaxTx
    BY <2>3 DEF Packet
  <2>5. QED BY <2>1, <2>4 DEF Good, CsmaAssumption
<1>4. ASSUME NEW k \in Neighbor, k.queue = n.queue, k.addr = n.addr,
             k.transmissions <= n.transmissions + 1, r \in {"NOACK", "COLLISION"},
             RetryOrGiveUp(b, k, q, r)
      PROVE  CsmaInv' /\ [Service!Next]_Service!vars
  <2>1. CASE k.transmissions >= PacketOf(b, q).max_transmissions
    <3>1. TxDone(b, k, q, r)
      BY <1>4, <2>1 DEF RetryOrGiveUp
    <3>2. QED BY <1>1, <1>2, <1>4, <2>1, <3>1, TxDoneKeeps
  <2>2. CASE ~(k.transmissions >= PacketOf(b, q).max_transmissions)
    <3>1. Rexmit(b, k, q, r)
      BY <1>4, <2>2 DEF RetryOrGiveUp
    <3>2. k.transmissions < PacketOf(b, q).max_transmissions /\ r # "OK"
      BY <1>3, <1>4, <2>2 DEF Neighbor
    <3>3. QED BY <1>1, <1>2, <1>4, <3>1, <3>2, RexmitGoesOn
  <2>3. QED BY <2>1, <2>2
<1>5. CASE r = "NOACK" /\ RetryOrGiveUp(b, AfterNoack(n), q, r)
  BY <1>3, <1>4, <1>5, CountedAttempts
<1>6. CASE r = "COLLISION" /\ RetryOrGiveUp(b, AfterCollision(n), q, r)
  BY <1>3, <1>4, <1>6, CountedAttempts
<1>7. CASE r \in {"OK", "ERR"} /\ TxDone(b, n, q, r)
  <2>1. n.transmissions <= n.transmissions + 1 /\ r \notin {"NOACK", "COLLISION"}
    BY <1>3, <1>7 DEF Neighbor
  <2>2. QED BY <1>1, <1>2, <1>3, <1>7, <2>1, TxDoneKeeps
<1>8. QED BY <1>2, <1>5, <1>6, <1>7

LEMMA SendKeeps ==
  ASSUME CsmaAssumption, CsmaInv, NEW a \in Addr, NEW ack \in BOOLEAN, NEW max \in MaxTx,
         SendPacket(a, ack, max)
  PROVE  CsmaInv' /\ [Service!Next]_Service!vars
<1>1. PICK p : p = [seqno |-> NewSeqno, ack |-> ack, max_transmissions |-> max,
                    attempts |-> 0]
  OBVIOUS
<1>2. /\ call.at # "radio" /\ NotInUse
      /\ Accept(a, p) \/ Reject(a)
      /\ seqno' = (NewSeqno + 1) % NumSeqno /\ UNCHANGED <<others, call>>
  BY <1>1 DEF SendPacket
<1>3. p \in Packet /\ p.seqno = NewSeqno /\ p.attempts = 0
  <2>1. NewSeqno \in Seqno
    BY DEF CsmaInv, CsmaTypeOK, CsmaAssumption, NewSeqno, Seqno
  <2>2. QED BY <1>1, <2>1 DEF Packet
<1>4. CASE Accept(a, p)
  <2>1. CsmaInv' /\ Service!Take(a, LetterOf(p))
    BY <1>2, <1>3, <1>4, AcceptKeeps
  <2>2. LetterOf(p) \in Letter
    BY <1>3 DEF Packet, Letter, LetterOf
  <2>3. QED BY <2>1, <2>2 DEF Service!Next
<1>5. CASE Reject(a)
  BY <1>2, <1>5, RejectKeeps
<1>6. QED BY <1>2, <1>4, <1>5

LEMMA StepKeepsInv ==
  ASSUME CsmaAssumption, CsmaInv, [CsmaNext]_vars
  PROVE  CsmaInv' /\ [Service!Next]_Service!vars
<1>1. CASE UNCHANGED vars
  <2>1. CsmaInv'
    BY <1>1 DEF vars, CsmaInv, CsmaTypeOK, Counted, Stored, Queued, WithinPools, InUse,
                NeverStuck, Kept, GoesOn, FullAttempts
  <2>2. UNCHANGED Service!vars
    BY <1>1, SamePending DEF vars, Service!vars, Answering
  <2>3. QED BY <2>1, <2>2
<1>2. ASSUME NEW a \in Addr, NEW ack \in (IF WithAcks THEN BOOLEAN ELSE {FALSE}),
             NEW max \in MaxTx, SendPacket(a, ack, max)
      PROVE  CsmaInv' /\ [Service!Next]_Service!vars
  BY <1>2, SendKeeps
<1>3. ASSUME NEW b \in Block, TransmitPacketList(b)
      PROVE  CsmaInv' /\ [Service!Next]_Service!vars
  BY <1>3, TransmitKeeps
<1>4. ASSUME NEW r \in Result, PacketSent(r)
      PROVE  CsmaInv' /\ [Service!Next]_Service!vars
  BY <1>4, PacketSentKeeps
<1>5. CASE CallbackReturns
  BY <1>5, CallbackKeeps DEF Service!Next
<1>6. CASE Others
  BY <1>6, OthersKeep
<1>7. QED
  BY <1>1, <1>2, <1>3, <1>4, <1>5, <1>6 DEF CsmaNext

----------------------------------------------------------------------------
(* Theorems *)

(* The invariant holds in every behaviour of the MAC: in the states of     *)
(* send_packet, send_list and packet_sent, and between them.               *)
THEOREM MacInvariant == CsmaSpec => []CsmaInv
<1>1. CsmaInit => CsmaInv
  BY InitHasInv, CsmaAssumption
<1>2. CsmaInv /\ [CsmaNext]_vars => CsmaInv'
  BY StepKeepsInv, CsmaAssumption
<1>3. QED
  BY <1>1, <1>2, PTL DEF CsmaSpec

(* Every packet that send_packet takes is answered by one callback, in the *)
(* order in which the data packets to its receiver were sent: every step   *)
(* of the MAC is a step of MacService, or none that it sees.               *)
THEOREM MacGivesItsService == CsmaSpec => ImplementsService
<1>1. CsmaInit => Service!Init
  <2>1. SUFFICES ASSUME CsmaInit PROVE Service!Init
    OBVIOUS
  <2>2. Pending = [a \in Addr |-> <<>>]
    BY <2>1 DEF CsmaInit, Pending, Known
  <2>3. Answering = Idle
    BY <2>1 DEF CsmaInit, Answering, Idle
  <2>4. QED BY <2>2, <2>3 DEF Service!Init
<1>2. CsmaInv /\ [CsmaNext]_vars => [Service!Next]_Service!vars
  BY StepKeepsInv, CsmaAssumption
<1>3. QED
  BY <1>1, <1>2, MacInvariant, PTL DEF CsmaSpec, ImplementsService, Service!Spec

(* Whatever send_packet takes from the pools is given back by its error    *)
(* paths and by free_packet, exactly once, for pools of every size.        *)
THEOREM BlocksBalance == CsmaSpec => []PoolsBalance
<1>1. CsmaInv => PoolsBalance
  <2>1. SUFFICES ASSUME CsmaInv PROVE PoolsBalance
    OBVIOUS
  <2>2. \A b \in neighbor_list : neighbor[b].queue # <<>>
    BY <2>1 DEF CsmaInv, Good
  <2>3. QED BY <2>1, <2>2 DEF CsmaInv, PoolsBalance, Counted, Stored
<1>2. QED BY <1>1, MacInvariant, PTL

(* A neighbour that has packets has its timer set or a packet in the       *)
(* radio, and no timer is set for a neighbour that is free.                *)
THEOREM QueuesKeepMoving == CsmaSpec => []NeverStuck
<1>1. CsmaInv => NeverStuck
  BY DEF CsmaInv
<1>2. QED BY <1>1, MacInvariant, PTL

(* What send_list kept across packet_sent and the upper layer's callback   *)
(* is in the queue it was taken from when send_list uses it.               *)
THEOREM KeptPacketIsAlive == CsmaSpec => []NextIsAlive
<1>1. CsmaInv => NextIsAlive
  <2>1. \A b, q : GoesOn(b, q) => b \in neighbor_list /\ q \in Queued(b)
    BY DEF GoesOn, FirstBut, Queued, Seqnos
  <2>2. QED BY <2>1 DEF CsmaInv, Kept, NextIsAlive
<1>2. QED BY <1>1, MacInvariant, PTL

(* No data packet is given up before its own max_transmissions, although   *)
(* packet_sent counts them for the neighbour.                              *)
THEOREM PacketsGetTheirAttempts == CsmaSpec => []FullAttempts
<1>1. CsmaInv => FullAttempts
  BY DEF CsmaInv
<1>2. QED BY <1>1, MacInvariant, PTL

=============================================================================
