----------------------------- MODULE CoapProofs -----------------------------
(***************************************************************************)
(* Theorems about the CoAP engine, for every set of peers, resources and   *)
(* clients and every size of its pools.                                    *)
(***************************************************************************)
EXTENDS Coap, ListLemmas

\* Who observes what, but for resources whose uri begins with that of another one.
Plain(u) == \A v \in Uri : <<v, u>> \notin Beginnings
Once(s) == \A i, j \in DOMAIN s :
             s[i].peer = s[j].peer /\ s[i].uri = s[j].uri /\ Plain(s[i].uri) => i = j
ObserversOk(s) == s \in Seq(Observer) /\ Len(s) <= MaxObservers /\ Once(s)

Open == {b \in Block : transactions[b] # NULL}
TransactionsOk ==
  /\ transactions \in [Block -> Transaction \cup {NULL}]
  /\ transactions_list \in Seq(Block) /\ Distinct(transactions_list)
  /\ Range(transactions_list) = Open

OthersOk == /\ callback \in [Block -> Client \cup {NULL}]
            /\ timer_events \in 0..MaxEvents
            /\ blocked \subseteq Client

CoapInv == /\ ObserversOk(observers_list) /\ TransactionsOk /\ OthersOk
           /\ ExpiredIsHandled /\ ClientsAreTold

LEMMA Sizes == /\ MaxTransactions \in Nat \ {0} /\ MaxObservers \in Nat \ {0}
               /\ MaxRetransmit \in Nat \ {0} /\ NumMids \in Nat \ {0} /\ MaxEvents \in Nat \ {0}
BY CoapAssumption

----------------------------------------------------------------------------
(* Choosing from finite sets of numbers *)

LEMMA NthFacts ==
  ASSUME NEW S, S \subseteq Nat, IsFiniteSet(S), NEW n \in 1..Cardinality(S)
  PROVE  Nth(S, n) \in S /\ Cardinality({y \in S : y < Nth(S, n)}) = n - 1
<1> DEFINE Below(x) == {y \in S : y < x}
           Bad == {k \in 1..Cardinality(S) : ~\E x \in S : Cardinality(Below(x)) = k - 1}
           k == Min(Bad)
<1>1. Cardinality(S) \in Nat
  BY FS_CardinalityType
<1>2. Bad = {}
  <2> SUFFICES ASSUME Bad # {} PROVE FALSE
    OBVIOUS
  <2>1. k \in Bad /\ \A m \in Bad : k <= m
    <3>1. Bad \subseteq Nat
      BY <1>1
    <3> HIDE DEF Bad
    <3>2. QED BY <3>1, NatMinimum
  <2> HIDE DEF k
  <2>2. k \in 1..Cardinality(S)
    BY <2>1
  <2>3. CASE k = 1
    <3>1. S # {}
      BY <1>1, <2>2, <2>3, FS_EmptySet
    <3>2. Min(S) \in S /\ \A y \in S : Min(S) <= y
      BY <3>1, NatMinimum
    <3>3. Below(Min(S)) = {}
      BY <3>2
    <3> HIDE DEF Below
    <3>4. Cardinality(Below(Min(S))) = k - 1
      BY <2>3, <3>3, FS_EmptySet
    <3>5. QED BY <2>1, <3>2, <3>4
  <2>4. CASE k # 1
    <3>1. k - 1 \in 1..Cardinality(S) /\ ~(k <= k - 1)
      BY <1>1, <2>2, <2>4
    <3>2. PICK x \in S : Cardinality(Below(x)) = (k - 1) - 1
      BY <2>1, <3>1
    <3> DEFINE A == Below(x) \cup {x}
               R == {y \in S : y > x}
               z == Min(R)
    <3>3. x \notin Below(x) /\ IsFiniteSet(Below(x)) /\ A \subseteq S
      BY FS_Subset
    <3>4. Cardinality(A) = k - 1
      <4> HIDE DEF Below
      <4>1. Cardinality(A) = Cardinality(Below(x)) + 1
        BY <3>3, FS_AddElement
      <4>2. QED BY <1>1, <2>2, <3>2, <4>1
    <3>5. R # {}
      <4>1. A # S
        <5>1. Cardinality(S) # k - 1
          BY <1>1, <2>2
        <5>2. QED BY <3>4, <5>1
      <4>2. PICK y \in S : y \notin A
        BY <3>3, <4>1
      <4>3. y > x
        BY <4>2
      <4>4. QED BY <4>3
    <3>6. z \in R /\ \A y \in R : z <= y
      <4>1. R \subseteq Nat
        OBVIOUS
      <4>2. QED BY <3>5, <4>1, NatMinimum
    <3> HIDE DEF z
    <3>7. Below(z) = A
      BY <3>6
    <3>8. QED BY <2>1, <3>4, <3>6, <3>7
  <2>5. QED BY <2>3, <2>4
<1>3. \E x \in S : Cardinality(Below(x)) = n - 1
  BY <1>2
<1>4. QED BY <1>3 DEF Nth

LEMMA NthsDiffer ==
  ASSUME NEW S, S \subseteq Nat, IsFiniteSet(S),
         NEW n \in 1..Cardinality(S), NEW m \in 1..Cardinality(S), Nth(S, n) = Nth(S, m)
  PROVE  n = m
<1>1. n - 1 = m - 1
  BY NthFacts
<1>2. n \in Int /\ m \in Int
  BY FS_CardinalityType
<1>3. QED BY <1>1, <1>2

LEMMA BeforeFacts ==
  ASSUME NEW S, S \subseteq Nat, IsFiniteSet(S), NEW i \in S
  PROVE  /\ Before(S, i) \in Nat /\ Before(S, i) + 1 \in 1..Cardinality(S)
         /\ \A T : S \subseteq T /\ IsFiniteSet(T) => Before(S, i) <= Before(T, i)
<1> DEFINE B == {j \in S : j < i}
<1>1. B \subseteq S \ {i} /\ IsFiniteSet(S \ {i}) /\ Cardinality(S \ {i}) = Cardinality(S) - 1
  BY FS_RemoveElement
<1>2. /\ IsFiniteSet(B) /\ Cardinality(B) <= Cardinality(S) - 1
      /\ Cardinality(B) \in Nat /\ Cardinality(S) \in Nat
  BY <1>1, FS_Subset, FS_CardinalityType
<1>3. ASSUME NEW T, S \subseteq T, IsFiniteSet(T)
      PROVE  Cardinality(B) <= Cardinality({j \in T : j < i})
  <2>1. IsFiniteSet({j \in T : j < i})
    BY <1>3, FS_Subset
  <2>2. B \subseteq {j \in T : j < i}
    BY <1>3
  <2>3. QED BY <2>1, <2>2, FS_Subset
<1>4. QED BY <1>2, <1>3 DEF Before

LEMMA BeforesDiffer ==
  ASSUME NEW S, S \subseteq Nat, IsFiniteSet(S), NEW i \in S, NEW j \in S,
         Before(S, i) = Before(S, j)
  PROVE  i = j
<1>1. ASSUME NEW a \in S, NEW c \in S, a < c PROVE Before(S, a) # Before(S, c)
  <2> DEFINE A == {y \in S : y < a}
             C == {y \in S : y < c}
  <2>1. A \subseteq C /\ a \in C /\ a \notin A
    <3>1. \A y \in S : y < a => y < c
      BY <1>1
    <3>2. ~(a < a)
      BY <1>1
    <3>3. QED BY <1>1, <3>1, <3>2
  <2>4. IsFiniteSet(C)
    BY FS_Subset
  <2>2. Cardinality(A) # Cardinality(C)
    BY <2>1, <2>4, FS_Subset
  <2>3. QED BY <2>2 DEF Before
<1>2. i < j \/ j < i \/ i = j
  OBVIOUS
<1>3. QED BY <1>1, <1>2

\* The number of an element, counted from 0, and the element of a number.
LEMMA BeforeNth ==
  ASSUME NEW S, S \subseteq Nat, IsFiniteSet(S), NEW n \in 1..Cardinality(S)
  PROVE  Nth(S, n) \in S /\ Before(S, Nth(S, n)) = n - 1
BY NthFacts DEF Before

LEMMA FreeBlocksFacts ==
  /\ IsFiniteSet(FreeBlocks) /\ FreeBlocks \subseteq Nat /\ FreeBlocks \subseteq Block
  /\ IsFiniteSet(Block) /\ FreeBlocks = Block \ Open
<1>1. IsFiniteSet(Block)
  BY Sizes, FS_Interval DEF Block
<1>2. FreeBlocks \subseteq Block /\ Block \subseteq Nat
  BY Sizes DEF FreeBlocks, Block
<1>3. QED BY <1>1, <1>2, FS_Subset DEF FreeBlocks, Open

LEMMA FreshMidsFacts ==
  FreshMids \subseteq Mid /\ IsFiniteSet(FreshMids) /\ FreshMids \subseteq Nat
<1>1. IsFiniteSet(Mid) /\ Mid \subseteq Nat
  BY Sizes, FS_Interval DEF Mid
<1>2. FreshMids \subseteq Mid
  BY DEF FreshMids
<1>3. QED BY <1>1, <1>2, FS_Subset

LEMMA FirstFreeFacts ==
  ASSUME FirstFree # NULL
  PROVE  FirstFree \in FreeBlocks
<1>1. FreeBlocks # {} /\ FirstFree = Nth(FreeBlocks, 1)
  BY DEF FirstFree
<1>2. Cardinality(FreeBlocks) \in Nat \ {0}
  BY <1>1, FreeBlocksFacts, FS_CardinalityType, FS_EmptySet
<1>3. 1 \in 1..Cardinality(FreeBlocks)
  BY <1>2
<1>4. QED BY <1>1, <1>3, FreeBlocksFacts, NthFacts

LEMMA FirstFreshFacts ==
  ASSUME FreshMids # {}
  PROVE  Nth(FreshMids, 1) \in Mid
<1>1. Cardinality(FreshMids) \in Nat \ {0}
  BY FreshMidsFacts, FS_CardinalityType, FS_EmptySet
<1>2. 1 \in 1..Cardinality(FreshMids)
  BY <1>1
<1>3. QED BY <1>2, FreshMidsFacts, NthFacts

----------------------------------------------------------------------------
(* Observers *)

\* Of a list at most the first of S is removed.
LEMMA RemoveFirstOfFacts ==
  ASSUME NEW T, NEW s \in Seq(T), NEW S
  PROVE  \/ RemoveFirstOf(s, S) = s /\ \A i \in DOMAIN s : s[i] \notin S
         \/ \E k \in DOMAIN s : s[k] \in S /\ RemoveFirstOf(s, S) = RemoveAt(s, k)
<1>1. CASE \E i \in DOMAIN s : s[i] \in S
  <2> DEFINE I == {i \in DOMAIN s : s[i] \in S}
             k == CHOOSE i \in DOMAIN s : s[i] \in S /\ \A j \in 1..(i - 1) : s[j] \notin S
  <2>1. DOMAIN s = 1 .. Len(s) /\ Len(s) \in Nat
    OBVIOUS
  <2>2. Min(I) \in I /\ \A j \in I : Min(I) <= j
    <3>1. I \subseteq Nat /\ I # {}
      BY <1>1, <2>1
    <3> HIDE DEF I
    <3>2. QED BY <3>1, NatMinimum
  <2>3. \E i \in DOMAIN s : s[i] \in S /\ \A j \in 1..(i - 1) : s[j] \notin S
    <3>1. Min(I) \in 1 .. Len(s) /\ s[Min(I)] \in S
      BY <2>1, <2>2
    <3>2. ASSUME NEW j \in 1..(Min(I) - 1) PROVE s[j] \notin S
      <4>1. j \in DOMAIN s /\ ~(Min(I) <= j)
        BY <2>1, <3>1
      <4>2. QED BY <2>2, <4>1
    <3>3. QED BY <2>1, <3>1, <3>2
  <2>4. k \in DOMAIN s /\ s[k] \in S
    BY <2>3
  <2>5. RemoveFirstOf(s, S) = RemoveAt(s, k)
    BY <1>1 DEF RemoveFirstOf
  <2>6. QED BY <2>4, <2>5
<1>2. CASE ~\E i \in DOMAIN s : s[i] \in S
  BY <1>2 DEF RemoveFirstOf
<1>3. QED BY <1>1, <1>2

LEMMA RemoveAtObservers ==
  ASSUME NEW s, ObserversOk(s), NEW k \in DOMAIN s
  PROVE  ObserversOk(RemoveAt(s, k))
<1> DEFINE r == RemoveAt(s, k)
           at(j) == IF j < k THEN j ELSE j + 1
<1>1. s \in Seq(Observer) /\ Len(s) \in Nat /\ DOMAIN s = 1 .. Len(s) /\ Len(s) <= MaxObservers
  BY DEF ObserversOk
<1>2. /\ r \in Seq(Observer) /\ DOMAIN r = 1 .. (Len(s) - 1) /\ Len(r) = Len(s) - 1
      /\ \A j \in DOMAIN r : r[j] = s[at(j)]
  BY <1>1, RemoveAtFacts
<1>3. Len(r) <= MaxObservers
  BY <1>1, <1>2, Sizes
<1> HIDE DEF r
<1>4. \A j \in DOMAIN r : at(j) \in DOMAIN s
  BY <1>1, <1>2
<1>5. \A i, j \in DOMAIN r : at(i) = at(j) => i = j
  BY <1>1, <1>2
<1> HIDE DEF at
<1>6. Once(r)
  BY <1>2, <1>4, <1>5 DEF Once, ObserversOk
<1>7. QED BY <1>2, <1>3, <1>6 DEF ObserversOk, r

LEMMA RemoveFirstObservers ==
  ASSUME NEW s, ObserversOk(s), NEW S
  PROVE  ObserversOk(RemoveFirstOf(s, S))
<1>1. s \in Seq(Observer)
  BY DEF ObserversOk
<1>2. CASE RemoveFirstOf(s, S) = s
  BY <1>2
<1>3. CASE \E k \in DOMAIN s : RemoveFirstOf(s, S) = RemoveAt(s, k)
  BY <1>3, RemoveAtObservers
<1>4. QED BY <1>1, <1>2, <1>3, RemoveFirstOfFacts

\* Of a plain resource no observer of the peer is left.
LEMMA RemovedByUri ==
  ASSUME NEW s, ObserversOk(s), NEW p \in Peer, NEW u \in Uri, Plain(u),
         NEW i \in DOMAIN RemoveByUri(s, p, u)
  PROVE  ~(RemoveByUri(s, p, u)[i].peer = p /\ RemoveByUri(s, p, u)[i].uri = u)
<1> DEFINE S == {o \in Observer : o.peer = p /\ SameUri(o, u)}
           r == RemoveFirstOf(s, S)
<1>1. r = RemoveByUri(s, p, u)
  BY DEF RemoveByUri
<1>2. /\ s \in Seq(Observer) /\ Len(s) \in Nat /\ DOMAIN s = 1 .. Len(s)
      /\ \A j \in DOMAIN s : s[j] \in Observer
  BY DEF ObserversOk
<1>3. \A o \in Observer : o \in S <=> o.peer = p /\ o.uri = u
  BY DEF SameUri, Plain, Observer
<1> HIDE DEF S
<1>4. CASE r = s /\ \A j \in DOMAIN s : s[j] \notin S
  <2>1. i \in DOMAIN s
    BY <1>1, <1>4
  <2>2. QED BY <1>1, <1>2, <1>3, <1>4, <2>1
<1>5. ASSUME NEW k \in DOMAIN s, s[k] \in S, r = RemoveAt(s, k)
      PROVE  ~(r[i].peer = p /\ r[i].uri = u)
  <2>1. /\ DOMAIN r = 1 .. (Len(s) - 1)
        /\ \A j \in 1 .. (Len(s) - 1) : r[j] = s[IF j < k THEN j ELSE j + 1]
    BY <1>2, <1>5, RemoveAtFacts
  <2>2. PICK j \in DOMAIN s : j # k /\ r[i] = s[j]
    <3>1. i \in 1 .. (Len(s) - 1)
      BY <1>1, <2>1
    <3>2. /\ (IF i < k THEN i ELSE i + 1) \in DOMAIN s
          /\ (IF i < k THEN i ELSE i + 1) # k
      BY <1>2, <3>1
    <3>3. QED BY <2>1, <3>1, <3>2
  <2>3. s[k].peer = p /\ s[k].uri = u
    BY <1>2, <1>3, <1>5
  <2>4. ~(s[j].peer = p /\ s[j].uri = u)
    BY <2>2, <2>3 DEF ObserversOk, Once
  <2>5. QED BY <2>2, <2>4
<1>6. QED
  <2>1. \/ r = s /\ \A j \in DOMAIN s : s[j] \notin S
        \/ \E k \in DOMAIN s : s[k] \in S /\ r = RemoveAt(s, k)
    BY <1>2, RemoveFirstOfFacts
  <2>2. QED BY <1>1, <1>4, <1>5, <2>1

LEMMA AddedObservers ==
  ASSUME NEW p \in Peer, NEW u \in Uri, ObserversOk(observers_list)
  PROVE  ObserversOk(Added(p, u))
<1> DEFINE s == RemoveByUri(observers_list, p, u)
           new == [peer |-> p, uri |-> u, last_mid |-> 0]
           r == Append(s, new)
<1>1. ObserversOk(s)
  BY RemoveFirstObservers DEF RemoveByUri
<1>2. \A i \in DOMAIN s : Plain(u) => ~(s[i].peer = p /\ s[i].uri = u)
  BY RemovedByUri
<1>3. new \in Observer
  BY DEF Observer
<1>4. CASE Len(s) < MaxObservers
  <2>1. /\ s \in Seq(Observer) /\ Len(s) \in Nat /\ DOMAIN s = 1 .. Len(s)
    BY <1>1 DEF ObserversOk
  <2> HIDE DEF s
  <2>2. /\ r \in Seq(Observer) /\ DOMAIN r = 1 .. (Len(s) + 1) /\ Len(r) = Len(s) + 1
        /\ r[Len(s) + 1] = new /\ \A i \in DOMAIN s : r[i] = s[i]
    BY <1>3, <2>1, AppendProperties
  <2>3. Len(r) <= MaxObservers
    BY <1>4, <2>1, <2>2, Sizes
  <2>4. new.peer = p /\ new.uri = u
    OBVIOUS
  <2>5. \A i \in DOMAIN r : i \in DOMAIN s \/ i = Len(s) + 1
    BY <2>1, <2>2
  <2> HIDE DEF r, new
  <2>6. Once(r)
    <3>1. ASSUME NEW i \in DOMAIN r, NEW j \in DOMAIN r,
                 r[i].peer = r[j].peer, r[i].uri = r[j].uri, Plain(r[i].uri)
          PROVE  i = j
      <4>1. CASE i \in DOMAIN s /\ j \in DOMAIN s
        BY <1>1, <2>2, <3>1, <4>1 DEF ObserversOk, Once
      <4>2. CASE i = Len(s) + 1 /\ j \in DOMAIN s
        BY <1>2, <2>2, <2>4, <3>1, <4>2
      <4>3. CASE i \in DOMAIN s /\ j = Len(s) + 1
        BY <1>2, <2>2, <2>4, <3>1, <4>3
      <4>4. QED BY <2>5, <4>1, <4>2, <4>3
    <3>2. QED BY <3>1 DEF Once
  <2>7. ObserversOk(r)
    BY <2>2, <2>3, <2>6 DEF ObserversOk
  <2>8. QED BY <1>4, <2>7 DEF Added, r, s, new
<1>5. CASE ~(Len(s) < MaxObservers)
  BY <1>1, <1>5 DEF Added
<1>6. QED BY <1>4, <1>5

----------------------------------------------------------------------------
(* Transactions *)

LEMMA NewTransaction ==
  ASSUME NEW m \in Mid, NEW p \in Peer
  PROVE  Confirmable(m, p) \in Transaction /\ Confirmable(m, p).timer = "set"
BY Sizes DEF Confirmable, Transaction

LEMMA AgainTransaction ==
  ASSUME NEW t \in Transaction, t.retrans_counter + 1 # MaxRetransmit
  PROVE  Retransmitted(t) \in Transaction /\ Retransmitted(t).timer = "set"
<1>1. t.retrans_counter \in 0..(MaxRetransmit - 1)
  BY DEF Transaction
<1>2. t.retrans_counter + 1 \in 0..(MaxRetransmit - 1)
  BY <1>1, Sizes
<1>3. QED BY <1>2 DEF Retransmitted, Transaction

LEMMA NoTransaction == NULL \notin Transaction
BY CoapAssumption

Waiting == {b \in Block : transactions[b] # NULL /\ transactions[b].timer = "expired"}

LEMMA WaitingFinite == IsFiniteSet(Waiting) /\ Cardinality(Waiting) \in Nat
<1>1. IsFiniteSet(Block) /\ Waiting \subseteq Block
  BY FreeBlocksFacts DEF Waiting
<1>2. QED BY <1>1, FS_Subset, FS_CardinalityType

LEMMA ExpiredIsWaiting == ExpiredIsHandled <=> Cardinality(Waiting) <= timer_events
BY DEF ExpiredIsHandled, Waiting

\* When no timer is due that was not, and no event is taken from the queue.
LEMMA WaitingShrinks ==
  ASSUME ExpiredIsHandled, timer_events' = timer_events, timer_events \in Nat,
         Waiting' \subseteq Waiting
  PROVE  ExpiredIsHandled'
<1>1. Cardinality(Waiting) \in Nat /\ Cardinality(Waiting) <= timer_events
  BY WaitingFinite, ExpiredIsWaiting
<1>2. Cardinality(Waiting') \in Nat /\ Cardinality(Waiting') <= Cardinality(Waiting)
  BY WaitingFinite, FS_Subset, FS_CardinalityType
<1>3. Cardinality(Waiting)' <= timer_events'
  BY <1>1, <1>2
<1>4. QED BY <1>3 DEF ExpiredIsHandled, Waiting

\* coap_clear_transaction
LEMMA ClearFacts ==
  ASSUME TransactionsOk, NEW b \in Open, Clear(b)
  PROVE  /\ TransactionsOk' /\ Open' = Open \ {b} /\ Waiting' \subseteq Waiting
         /\ \A d \in Open' : transactions'[d] = transactions[d]
<1>1. /\ transactions' = [transactions EXCEPT ![b] = NULL]
      /\ transactions_list' = RemoveFirst(transactions_list, b)
  BY DEF Clear
<1>2. /\ transactions_list' \in Seq(Block) /\ Distinct(transactions_list')
      /\ Range(transactions_list') = Range(transactions_list) \ {b}
  BY <1>1, RemoveFirstKeeps DEF TransactionsOk
<1>3. /\ transactions' \in [Block -> Transaction \cup {NULL}]
      /\ transactions'[b] = NULL /\ \A d \in Block \ {b} : transactions'[d] = transactions[d]
  BY <1>1 DEF TransactionsOk, Open
<1>4. Open' = Open \ {b}
  BY <1>3 DEF Open
<1>5. QED BY <1>2, <1>3, <1>4 DEF TransactionsOk, Waiting, Open

\* The clients that wait after the transactions of S are gone still have one.
LEMMA OthersAreTold ==
  ASSUME ClientsAreTold, NEW S, Open \ S \subseteq Open', UNCHANGED callback,
         blocked' = Answered(S)
  PROVE  ClientsAreTold'
<1>1. ASSUME NEW k \in blocked' PROVE OpenFor(k)' # {}
  <2>1. k \in blocked /\ \A b \in S : callback[b] # k
    BY <1>1 DEF Answered
  <2>2. PICK b \in Block \ FreeBlocks : callback[b] = k
    BY <2>1 DEF ClientsAreTold, OpenFor
  <2>3. b \in Open /\ b \notin S
    BY <2>1, <2>2, FreeBlocksFacts
  <2>4. b \in Open' /\ callback'[b] = k
    BY <2>2, <2>3
  <2>5. b \in (Block \ FreeBlocks)'
    BY <2>4 DEF Open, FreeBlocks
  <2>6. QED BY <2>4, <2>5 DEF OpenFor
<1>2. QED BY <1>1 DEF ClientsAreTold

LEMMA AnsweredOk ==
  ASSUME OthersOk, NEW S PROVE Answered(S) \subseteq Client /\ Answered({}) = blocked
BY DEF OthersOk, Answered

----------------------------------------------------------------------------
(* The steps *)

LEMMA ServedStep ==
  ASSUME CoapInv, NEW s, ObserversOk(s), Served(s)
  PROVE  CoapInv'
<1>1. UNCHANGED <<transactions_list, transactions, callback, timer_events, blocked>>
  BY DEF Served, transvars
<1>2. ObserversOk(observers_list')
  BY DEF Served, CoapInv
<1>3. QED
  BY <1>1, <1>2 DEF CoapInv, TransactionsOk, Open, OthersOk, ExpiredIsHandled, ClientsAreTold,
     OpenFor, FreeBlocks

LEMMA PeersStep ==
  ASSUME CoapInv, NEW p \in Peer, NEW u \in Uri, Register(p, u) \/ Deregister(p, u)
  PROVE  CoapInv'
<1>1. ObserversOk(observers_list)
  BY DEF CoapInv
<1>2. CASE Register(p, u)
  BY <1>1, <1>2, AddedObservers, ServedStep DEF Register
<1>3. CASE Deregister(p, u)
  BY <1>1, <1>3, RemoveFirstObservers, ServedStep DEF Deregister, RemoveByToken
<1>4. QED BY <1>2, <1>3

LEMMA AnswerStep ==
  ASSUME CoapInv, NEW p \in Peer, NEW m \in Mid, NEW rst \in BOOLEAN, Answer(p, m, rst)
  PROVE  CoapInv'
<1>1. ObserversOk(observers_list')
  BY RemoveFirstObservers DEF CoapInv, Answer, RemoveByMid
<1>2. UNCHANGED <<callback, timer_events>>
  BY DEF Answer
<1>3. CASE UNCHANGED <<transactions, transactions_list, blocked>>
  BY <1>1, <1>2, <1>3 DEF CoapInv, TransactionsOk, Open, OthersOk, ExpiredIsHandled,
     ClientsAreTold, OpenFor, FreeBlocks
<1>4. ASSUME NEW b \in OpenWith(m), Clear(b), blocked' = Answered({b})
      PROVE  CoapInv'
  <2>1. b \in Open
    BY <1>4, FreeBlocksFacts DEF OpenWith
  <2>2. /\ TransactionsOk' /\ Open' = Open \ {b} /\ Waiting' \subseteq Waiting
    BY <1>4, <2>1, ClearFacts DEF CoapInv
  <2>3. ClientsAreTold'
    BY <1>2, <1>4, <2>2, OthersAreTold DEF CoapInv
  <2>4. ExpiredIsHandled'
    BY <1>2, <2>2, WaitingShrinks DEF CoapInv, OthersOk
  <2>5. OthersOk'
    BY <1>2, <1>4, AnsweredOk DEF CoapInv, OthersOk
  <2>6. QED BY <1>1, <2>2, <2>3, <2>4, <2>5 DEF CoapInv
<1>5. QED BY <1>3, <1>4 DEF Answer

LEMMA RequestStep ==
  ASSUME CoapInv, NEW k \in Client, NEW p \in Peer, Request(k, p)
  PROVE  CoapInv'
<1> DEFINE b == FirstFree
           m == Nth(FreshMids, 1)
           t == Confirmable(m, p)
<1>1. /\ transactions' = [transactions EXCEPT ![b] = t]
      /\ transactions_list' = Append(transactions_list, b)
      /\ callback' = [callback EXCEPT ![b] = k]
      /\ blocked' = blocked \cup {k} /\ UNCHANGED <<observers_list, timer_events>>
  BY DEF Request
<1>2. b \in FreeBlocks
  BY FirstFreeFacts DEF Request
<1>3. t \in Transaction /\ t.timer = "set"
  BY FirstFreshFacts, NewTransaction DEF Request
<1> HIDE DEF b, t
<1>4. b \in Block /\ b \notin Open /\ t # NULL
  BY <1>2, <1>3, FreeBlocksFacts, NoTransaction
<1>5. /\ transactions' \in [Block -> Transaction \cup {NULL}] /\ transactions'[b] = t
      /\ \A d \in Block \ {b} : transactions'[d] = transactions[d]
  BY <1>1, <1>3, <1>4 DEF CoapInv, TransactionsOk
<1>6. /\ transactions_list' \in Seq(Block) /\ Distinct(transactions_list')
      /\ Range(transactions_list') = Range(transactions_list) \cup {b}
  BY <1>1, <1>4, AppendKeeps DEF CoapInv, TransactionsOk
<1>7. Open' = Open \cup {b}
  BY <1>4, <1>5 DEF Open
<1>8. Waiting' \subseteq Waiting
  BY <1>3, <1>5 DEF Waiting
<1>9. TransactionsOk' /\ OthersOk'
  BY <1>1, <1>4, <1>5, <1>6, <1>7 DEF CoapInv, TransactionsOk, OthersOk
<1>10. ExpiredIsHandled'
  BY <1>1, <1>8, WaitingShrinks DEF CoapInv, OthersOk
<1>11. ASSUME NEW j \in blocked' PROVE OpenFor(j)' # {}
  <2>1. CASE j = k
    <3>1. b \in Open' /\ callback'[b] = k
      BY <1>1, <1>4, <1>7 DEF CoapInv, OthersOk
    <3>2. QED BY <2>1, <3>1 DEF OpenFor, Open, FreeBlocks
  <2>2. CASE j # k
    <3>1. PICK d \in Block \ FreeBlocks : callback[d] = j
      BY <1>1, <1>11, <2>2 DEF CoapInv, ClientsAreTold, OpenFor
    <3>2. d \in Open /\ d # b
      BY <1>2, <3>1, FreeBlocksFacts
    <3>3. d \in Open' /\ callback'[d] = j
      BY <1>1, <1>7, <3>1, <3>2 DEF CoapInv, OthersOk
    <3>4. QED BY <3>3 DEF OpenFor, Open, FreeBlocks
  <2>3. QED BY <2>1, <2>2
<1>12. QED BY <1>1, <1>9, <1>10, <1>11 DEF CoapInv, ClientsAreTold

LEMMA ExpireStep ==
  ASSUME CoapInv, NEW b \in Block, TimerExpires(b)
  PROVE  CoapInv'
<1>1. /\ transactions' = [transactions EXCEPT ![b].timer = "expired"]
      /\ timer_events' = timer_events + 1 /\ timer_events < MaxEvents
      /\ transactions[b] # NULL /\ transactions[b].timer = "set"
      /\ UNCHANGED <<transactions_list, callback, observers_list, blocked>>
  BY DEF TimerExpires
<1>2. transactions[b] \in Transaction
  BY <1>1 DEF CoapInv, TransactionsOk
<1>3. [transactions[b] EXCEPT !.timer = "expired"] \in Transaction
  BY <1>2 DEF Transaction
<1>4. /\ transactions' \in [Block -> Transaction \cup {NULL}] /\ transactions'[b] # NULL
      /\ \A d \in Block \ {b} : transactions'[d] = transactions[d]
  BY <1>1, <1>3, NoTransaction DEF CoapInv, TransactionsOk
<1>5. Open' = Open
  BY <1>1, <1>4 DEF Open
<1>6. Waiting' \subseteq Waiting \cup {b}
  BY <1>4 DEF Waiting
<1>7. ExpiredIsHandled'
  <2>1. /\ Cardinality(Waiting) \in Nat /\ Cardinality(Waiting) <= timer_events
        /\ timer_events \in Nat
    BY WaitingFinite, ExpiredIsWaiting DEF CoapInv, OthersOk
  <2>2. IsFiniteSet(Waiting \cup {b}) /\ Cardinality(Waiting \cup {b}) <= Cardinality(Waiting) + 1
        /\ Cardinality(Waiting \cup {b}) \in Nat
    <3>1. /\ IsFiniteSet(Waiting \cup {b})
          /\ Cardinality(Waiting \cup {b}) = IF b \in Waiting THEN Cardinality(Waiting)
                                             ELSE Cardinality(Waiting) + 1
      BY WaitingFinite, FS_AddElement
    <3>2. QED BY <2>1, <3>1
  <2>3. Cardinality(Waiting') \in Nat /\ Cardinality(Waiting') <= Cardinality(Waiting \cup {b})
    BY <1>6, <2>2, FS_Subset, FS_CardinalityType
  <2>4. Cardinality(Waiting)' <= timer_events'
    BY <1>1, <2>1, <2>2, <2>3
  <2>5. QED BY <2>4 DEF ExpiredIsHandled, Waiting
<1>8. TransactionsOk' /\ OthersOk'
  BY <1>1, <1>4, <1>5, Sizes DEF CoapInv, TransactionsOk, OthersOk
<1>9. ClientsAreTold'
  <2>1. \A d \in Block : d \in FreeBlocks' <=> d \in FreeBlocks
    BY <1>5 DEF Open, FreeBlocks
  <2>2. QED BY <1>1, <2>1 DEF CoapInv, ClientsAreTold, OpenFor
<1>10. QED BY <1>1, <1>7, <1>8, <1>9 DEF CoapInv

\* The transactions that coap_notify_observers opens are free ones, one for each.
LEMMA NotifyStep ==
  ASSUME CoapInv, NEW u \in Uri, NEW first \in Nat, Notify(u, first)
  PROVE  CoapInv'
<1> DEFINE con == CON(u, first)
           due == {i \in Observers(u) : i >= first}
           told == NON(u, first) \cup con
           mid == [i \in told |-> Nth(FreshMids, Before(told, i) + 1)]
           block == [i \in con |-> Nth(FreeBlocks, Before(con, i) + 1)]
           n == Cardinality(con)
           opened == [k \in 1..n |-> Nth(FreeBlocks, k)]
<1>1. /\ Cardinality(FreshMids) >= Cardinality(told)
      /\ observers_list' = [i \in DOMAIN observers_list |->
           IF i \in told THEN [observers_list[i] EXCEPT !.last_mid = mid[i]]
           ELSE observers_list[i]]
      /\ transactions' = [b \in Block |->
           IF \E i \in con : block[i] = b
           THEN Confirmable(mid[CHOOSE i \in con : block[i] = b],
                            observers_list[CHOOSE i \in con : block[i] = b].peer)
           ELSE transactions[b]]
      /\ transactions_list' = transactions_list \o opened
      /\ UNCHANGED <<callback, timer_events, blocked>>
  BY DEF Notify
<1>2. /\ observers_list \in Seq(Observer) /\ Len(observers_list) \in Nat
      /\ DOMAIN observers_list = 1 .. Len(observers_list)
      /\ \A i \in DOMAIN observers_list : observers_list[i] \in Observer
  BY DEF CoapInv, ObserversOk
<1>3. con \subseteq due /\ due \subseteq DOMAIN observers_list /\ told \subseteq DOMAIN observers_list
  BY DEF CON, NON, Observers
<1>4. IsFiniteSet(DOMAIN observers_list) /\ DOMAIN observers_list \subseteq Nat
  BY <1>2, FS_Interval
<1>5. /\ IsFiniteSet(con) /\ IsFiniteSet(due) /\ IsFiniteSet(told)
      /\ con \subseteq Nat /\ told \subseteq Nat
  BY <1>3, <1>4, FS_Subset
<1>6. \A i \in con : Before(due, i) < Cardinality(FreeBlocks)
  BY DEF CON
<1>7. Cardinality(FreeBlocks) \in Nat /\ Cardinality(FreshMids) \in Nat /\ n \in Nat
      /\ Cardinality(told) \in Nat
  BY <1>5, FreeBlocksFacts, FreshMidsFacts, FS_CardinalityType
<1> HIDE DEF con, due, told, n
\* Message IDs and blocks are there for all.
<1>8. \A i \in told : mid[i] \in Mid
  <2>1. ASSUME NEW i \in told PROVE Nth(FreshMids, Before(told, i) + 1) \in FreshMids
    <3>1. Before(told, i) + 1 \in 1..Cardinality(told)
      BY <1>5, BeforeFacts
    <3>2. Before(told, i) + 1 \in 1..Cardinality(FreshMids)
      BY <1>1, <1>7, <3>1
    <3>3. QED BY <3>2, FreshMidsFacts, NthFacts
  <2>2. QED BY <2>1, FreshMidsFacts
<1>9. \A i \in con : Before(con, i) + 1 \in 1..n /\ Before(con, i) + 1 \in 1..Cardinality(FreeBlocks)
  <2>1. ASSUME NEW i \in con
        PROVE  Before(con, i) + 1 \in 1..n /\ Before(con, i) + 1 \in 1..Cardinality(FreeBlocks)
    <3>1. /\ Before(con, i) + 1 \in 1..n /\ Before(con, i) \in Nat
          /\ Before(con, i) <= Before(due, i)
      BY <1>3, <1>5, BeforeFacts DEF n
    <3>2. Before(due, i) \in Nat
      <4>1. i \in due /\ due \subseteq Nat
        BY <1>3, <1>4
      <4>2. QED BY <1>5, <4>1, BeforeFacts
    <3>3. QED BY <1>6, <1>7, <3>1, <3>2
  <2>2. QED BY <2>1
<1>10. \A k \in 1..n : /\ Nth(con, k) \in con /\ Before(con, Nth(con, k)) = k - 1
                       /\ k \in 1..Cardinality(FreeBlocks)
  <2>1. ASSUME NEW k \in 1..n
        PROVE  /\ Nth(con, k) \in con /\ Before(con, Nth(con, k)) = k - 1
               /\ k \in 1..Cardinality(FreeBlocks)
    <3>1. Nth(con, k) \in con /\ Before(con, Nth(con, k)) = k - 1
      BY <1>5, BeforeNth DEF n
    <3>2. (k - 1) + 1 \in 1..Cardinality(FreeBlocks) /\ (k - 1) + 1 = k
      BY <1>7, <1>9, <3>1
    <3>3. QED BY <3>1, <3>2
  <2>2. QED BY <2>1
<1>11. \A i \in con : block[i] \in FreeBlocks /\ Before(con, i) + 1 \in 1..n
                      /\ block[i] = opened[Before(con, i) + 1]
  <2>1. ASSUME NEW i \in con PROVE Nth(FreeBlocks, Before(con, i) + 1) \in FreeBlocks
    BY <1>9, FreeBlocksFacts, NthFacts
  <2>2. QED BY <1>9, <2>1
<1>12. /\ opened \in Seq(Block) /\ DOMAIN opened = 1..n /\ Len(opened) = n
       /\ \A k \in 1..n : opened[k] \in FreeBlocks
  <2>1. \A k \in 1..n : Nth(FreeBlocks, k) \in FreeBlocks
    BY <1>10, FreeBlocksFacts, NthFacts
  <2>2. opened \in [1..n -> Block]
    BY <2>1, FreeBlocksFacts
  <2>3. QED BY <1>7, <2>1, <2>2
<1>13. \A k, l \in 1..n : opened[k] = opened[l] => k = l
  BY <1>10, NthsDiffer, FreeBlocksFacts
<1>14. \A k \in 1..n : \E i \in con : block[i] = opened[k]
  <2>1. ASSUME NEW k \in 1..n PROVE block[Nth(con, k)] = opened[k]
    <3>1. Nth(con, k) \in con /\ Before(con, Nth(con, k)) + 1 = k
      BY <1>7, <1>10
    <3>2. QED BY <3>1
  <2>2. QED BY <1>10, <2>1
<1>15. con \subseteq told
  BY DEF told
<1> HIDE DEF mid, block, opened
<1>16. ObserversOk(observers_list')
  <2> DEFINE r == observers_list'
  <2>1. \A i \in DOMAIN observers_list :
          r[i] \in Observer /\ r[i].peer = observers_list[i].peer /\ r[i].uri = observers_list[i].uri
    <3>1. ASSUME NEW i \in DOMAIN observers_list
          PROVE  r[i] \in Observer /\ r[i].peer = observers_list[i].peer
                 /\ r[i].uri = observers_list[i].uri
      <4>1. CASE i \in told
        <5>1. r[i] = [observers_list[i] EXCEPT !.last_mid = mid[i]]
          BY <1>1, <4>1
        <5>2. mid[i] \in Mid /\ observers_list[i] \in Observer
          BY <1>2, <1>8, <4>1
        <5>3. QED BY <5>1, <5>2 DEF Observer
      <4>2. CASE i \notin told
        BY <1>1, <1>2, <4>2
      <4>3. QED BY <4>1, <4>2
    <3>2. QED BY <3>1
  <2>2. DOMAIN r = 1 .. Len(observers_list)
    BY <1>1, <1>2
  <2>3. r = [i \in 1 .. Len(observers_list) |-> r[i]]
    BY <1>1, <1>2
  <2>4. r \in [1 .. Len(observers_list) -> Observer]
    BY <1>2, <2>1, <2>2, <2>3
  <2>5. r \in Seq(Observer) /\ Len(r) = Len(observers_list)
    BY <1>2, <2>4
  <2>6. Once(r)
    BY <1>2, <2>1, <2>2 DEF CoapInv, ObserversOk, Once
  <2>7. QED BY <2>5, <2>6 DEF CoapInv, ObserversOk
<1> DEFINE O == Range(opened)
<1>17. O \subseteq FreeBlocks /\ \A b : b \in O <=> \E i \in con : block[i] = b
  <2>1. \A b : b \in O <=> \E k \in 1..n : opened[k] = b
    BY <1>12 DEF Range
  <2>2. QED BY <1>11, <1>12, <1>14, <2>1
<1>18. \A b \in Block : IF b \in O THEN transactions'[b] \in Transaction /\ transactions'[b].timer = "set"
                                   ELSE transactions'[b] = transactions[b]
  <2>1. ASSUME NEW b \in Block, b \in O
        PROVE  transactions'[b] \in Transaction /\ transactions'[b].timer = "set"
    <3> DEFINE i == CHOOSE i \in con : block[i] = b
    <3>1. i \in con
      BY <1>17, <2>1
    <3>2. transactions'[b] = Confirmable(mid[i], observers_list[i].peer)
      BY <1>1, <1>17, <2>1
    <3>3. mid[i] \in Mid /\ observers_list[i].peer \in Peer
      <4>1. i \in told
        BY <1>15, <3>1
      <4>2. observers_list[i] \in Observer
        BY <1>2, <1>3, <4>1
      <4>3. QED BY <1>8, <4>1, <4>2 DEF Observer
    <3> HIDE DEF i
    <3>4. QED BY <3>2, <3>3, NewTransaction
  <2>2. ASSUME NEW b \in Block, b \notin O PROVE transactions'[b] = transactions[b]
    BY <1>1, <1>17, <2>2
  <2>3. QED BY <2>1, <2>2
<1>19. /\ transactions' \in [Block -> Transaction \cup {NULL}] /\ Open' = Open \cup O
       /\ Waiting' \subseteq Waiting
  <2>1. transactions' = [b \in Block |-> transactions'[b]]
    BY <1>1
  <2>2. transactions' \in [Block -> Transaction \cup {NULL}]
    BY <1>18, <2>1 DEF CoapInv, TransactionsOk
  <2>3. Open' = Open \cup O
    BY <1>17, <1>18, NoTransaction, FreeBlocksFacts DEF Open
  <2>4. Waiting' \subseteq Waiting
    BY <1>18 DEF Waiting
  <2>5. QED BY <2>2, <2>3, <2>4
<1>20. /\ transactions_list' \in Seq(Block) /\ Distinct(transactions_list')
       /\ Range(transactions_list') = Range(transactions_list) \cup O
  <2>1. Range(transactions_list) \cap O = {}
    BY <1>17, FreeBlocksFacts DEF CoapInv, TransactionsOk
  <2>2. Distinct(opened)
    BY <1>12, <1>13 DEF Distinct
  <2>3. QED BY <1>1, <1>12, <2>1, <2>2, JoinKeeps DEF CoapInv, TransactionsOk
<1>21. TransactionsOk' /\ OthersOk'
  BY <1>1, <1>19, <1>20 DEF CoapInv, TransactionsOk, OthersOk
<1>22. ExpiredIsHandled'
  BY <1>1, <1>19, WaitingShrinks DEF CoapInv, OthersOk
<1>23. ClientsAreTold'
  <2>1. blocked' = Answered({}) /\ UNCHANGED callback
    BY <1>1, AnsweredOk DEF CoapInv
  <2>2. Open \ {} \subseteq Open'
    BY <1>19
  <2>3. QED BY <2>1, <2>2, OthersAreTold DEF CoapInv
<1>24. QED BY <1>16, <1>21, <1>22, <1>23 DEF CoapInv

\* coap_check_transactions: what is due before the first that times out is sent
\* again, that one goes, and the others still have their events.
LEMMA CheckStep ==
  ASSUME CoapInv, CheckTransactions
  PROVE  CoapInv'
<1> DEFINE s == transactions_list
           again == {s[i] : i \in {j \in Walked : Expired(j) /\ ~TimesOut(j)}}
           out == {s[i] : i \in {j \in Walked : TimesOut(j)}}
           gone == CHOOSE b \in out : TRUE
<1>1. /\ timer_events > 0 /\ timer_events' = timer_events - 1
      /\ transactions' = [b \in Block |-> IF b \in again THEN Retransmitted(transactions[b])
                                          ELSE IF b \in out THEN NULL ELSE transactions[b]]
      /\ transactions_list' = IF out = {} THEN s ELSE RemoveFirst(s, gone)
      /\ observers_list' = IF out = {} THEN observers_list
                           ELSE RemoveByClient(observers_list, transactions[gone].peer)
      /\ blocked' = Answered(out) /\ UNCHANGED callback
  BY DEF CheckTransactions
<1>2. /\ s \in Seq(Block) /\ Distinct(s) /\ Range(s) = Open
      /\ Len(s) \in Nat /\ DOMAIN s = 1 .. Len(s)
      /\ transactions \in [Block -> Transaction \cup {NULL}]
  BY DEF CoapInv, TransactionsOk
<1>3. \A i \in DOMAIN s : s[i] \in Open /\ transactions[s[i]] \in Transaction
  BY <1>2 DEF Open, Range
<1>4. Walked \subseteq DOMAIN s
  BY DEF Walked
\* One transaction at most times out.
<1>5. \A i, j \in Walked : TimesOut(i) /\ TimesOut(j) => i = j
  <2>1. ASSUME NEW i \in Walked, NEW j \in Walked, TimesOut(i), TimesOut(j), i < j PROVE FALSE
    <3>1. i \in 1..(j - 1)
      BY <1>2, <1>4, <2>1
    <3>2. QED BY <2>1, <3>1 DEF Walked
  <2>2. ASSUME NEW i \in Walked, NEW j \in Walked, TimesOut(i), TimesOut(j) PROVE i = j
    <3>1. i \in Nat /\ j \in Nat
      BY <1>2, <1>4
    <3>2. QED BY <2>1, <2>2, <3>1
  <2>3. QED BY <2>2
<1>6. /\ again \subseteq Open /\ out \subseteq Open /\ again \cap out = {}
      /\ \A b \in again \cup out : transactions[b].timer = "expired"
  <2>1. again \subseteq Open /\ out \subseteq Open
    BY <1>3, <1>4
  <2>2. again \cap out = {}
    <3>1. ASSUME NEW i \in Walked, NEW j \in Walked, ~TimesOut(i), TimesOut(j) PROVE s[i] # s[j]
      BY <1>2, <1>4, <3>1 DEF Distinct
    <3>2. QED BY <3>1
  <2>3. \A b \in again \cup out : transactions[b].timer = "expired"
    BY DEF Expired, TimesOut
  <2>4. QED BY <2>1, <2>2, <2>3
<1>7. out # {} => out = {gone}
  <2>1. \A b, d \in out : b = d
    BY <1>5
  <2>2. QED BY <2>1
<1>8. \A b \in again : transactions[b] \in Transaction
                      /\ transactions[b].retrans_counter + 1 # MaxRetransmit
  <2>1. ASSUME NEW i \in Walked, Expired(i), ~TimesOut(i)
        PROVE  /\ transactions[s[i]] \in Transaction
               /\ transactions[s[i]].retrans_counter + 1 # MaxRetransmit
    BY <1>3, <1>4, <2>1 DEF TimesOut, Counter
  <2>2. QED BY <2>1
\* While some timer is expired, the walk meets one of them.
<1>9. Waiting # {} => \E b \in Waiting : b \in again \cup out
  <2>1. ASSUME NEW b \in Waiting PROVE \E d \in Waiting : d \in again \cup out
    <3>1. PICK i \in DOMAIN s : s[i] = b
      BY <1>2, <2>1 DEF Waiting, Open, Range
    <3>2. Expired(i)
      BY <2>1, <3>1 DEF Waiting, Expired
    <3>3. CASE i \in Walked
      BY <2>1, <3>1, <3>2, <3>3
    <3>4. CASE i \notin Walked
      <4> DEFINE J == {j \in DOMAIN s : TimesOut(j)}
                 m == Min(J)
      <4>1. J \subseteq Nat /\ J # {}
        BY <1>2, <3>4 DEF Walked
      <4>2. m \in J /\ \A j \in J : m <= j
        <5> HIDE DEF J
        <5>1. QED BY <4>1, NatMinimum
      <4> HIDE DEF m
      <4>3. m \in Walked
        <5>1. ASSUME NEW j \in 1..(m - 1) PROVE ~TimesOut(j)
          <6>1. j \in DOMAIN s /\ ~(m <= j)
            BY <1>2, <4>2
          <6>2. QED BY <4>2, <6>1
        <5>2. QED BY <4>2, <5>1 DEF Walked
      <4>4. s[m] \in out
        BY <4>2, <4>3
      <4>5. s[m] \in Waiting
        BY <1>6, <4>4, FreeBlocksFacts DEF Waiting, Open
      <4>6. QED BY <4>4, <4>5
    <3>5. QED BY <3>3, <3>4
  <2>2. QED BY <2>1
<1> HIDE DEF s, again, out, gone
<1>10. \A b \in Block :
         /\ b \in again => transactions'[b] \in Transaction /\ transactions'[b].timer = "set"
         /\ b \in out => transactions'[b] = NULL
         /\ b \notin again \cup out => transactions'[b] = transactions[b]
  BY <1>1, <1>6, <1>8, AgainTransaction
<1>11. /\ transactions' \in [Block -> Transaction \cup {NULL}] /\ Open' = Open \ out
       /\ Waiting' = Waiting \ (again \cup out)
  <2>1. transactions' = [b \in Block |-> transactions'[b]]
    BY <1>1
  <2>2. transactions' \in [Block -> Transaction \cup {NULL}]
    BY <1>2, <1>10, <2>1
  <2>3. Open' = Open \ out
    BY <1>6, <1>10, NoTransaction DEF Open
  <2>4. Waiting' = Waiting \ (again \cup out)
    BY <1>10 DEF Waiting
  <2>5. QED BY <2>2, <2>3, <2>4
<1>12. /\ transactions_list' \in Seq(Block) /\ Distinct(transactions_list')
       /\ Range(transactions_list') = Range(s) \ out
  <2>1. CASE out = {}
    BY <1>1, <1>2, <2>1 DEF s
  <2>2. CASE out # {}
    BY <1>1, <1>2, <1>7, <2>2, RemoveFirstKeeps
  <2>3. QED BY <2>1, <2>2
<1>13. TransactionsOk'
  BY <1>2, <1>11, <1>12 DEF TransactionsOk
<1>14. ObserversOk(observers_list')
  BY <1>1, RemoveFirstObservers DEF CoapInv, RemoveByClient
<1>15. OthersOk'
  <2>1. timer_events' \in 0..MaxEvents
    BY <1>1, Sizes DEF CoapInv, OthersOk
  <2>2. QED BY <1>1, <2>1, AnsweredOk DEF CoapInv, OthersOk
<1>16. ClientsAreTold'
  BY <1>1, <1>11, OthersAreTold DEF CoapInv
<1>17. ExpiredIsHandled'
  <2>1. /\ Cardinality(Waiting) \in Nat /\ Cardinality(Waiting) <= timer_events
        /\ IsFiniteSet(Waiting) /\ timer_events \in Nat
    BY WaitingFinite, ExpiredIsWaiting DEF CoapInv, OthersOk
  <2>2. CASE Waiting = {}
    <3>1. Cardinality(Waiting') = 0
      BY <1>11, <2>2, FS_EmptySet
    <3>2. Cardinality(Waiting)' <= timer_events'
      BY <1>1, <2>1, <3>1
    <3>3. QED BY <3>2 DEF ExpiredIsHandled, Waiting
  <2>3. CASE Waiting # {}
    <3>1. PICK b \in Waiting : b \in again \cup out
      BY <1>9, <2>3
    <3>2. /\ Cardinality(Waiting \ {b}) = Cardinality(Waiting) - 1 /\ IsFiniteSet(Waiting \ {b})
      BY <2>1, <3>1, FS_RemoveElement
    <3>3. Waiting' \subseteq Waiting \ {b}
      BY <1>11, <3>1
    <3>4. Cardinality(Waiting') \in Nat /\ Cardinality(Waiting') <= Cardinality(Waiting \ {b})
      BY <3>2, <3>3, FS_Subset, FS_CardinalityType
    <3>5. Cardinality(Waiting)' <= timer_events'
      BY <1>1, <2>1, <3>2, <3>4
    <3>6. QED BY <3>5 DEF ExpiredIsHandled, Waiting
  <2>4. QED BY <2>2, <2>3
<1>18. QED BY <1>13, <1>14, <1>15, <1>16, <1>17 DEF CoapInv

LEMMA InitCoap == CoapInit => CoapInv
<1> SUFFICES ASSUME CoapInit PROVE CoapInv
  OBVIOUS
<1>1. ObserversOk(observers_list)
  BY Sizes DEF CoapInit, ObserversOk, Once
<1>2. TransactionsOk /\ Open = {}
  BY DEF CoapInit, TransactionsOk, Open, Distinct, Range
<1>3. OthersOk
  BY Sizes DEF CoapInit, OthersOk
<1>4. Waiting = {}
  BY <1>2 DEF Waiting, Open
<1>5. ExpiredIsHandled
  BY <1>3, <1>4, FS_EmptySet, ExpiredIsWaiting DEF CoapInit
<1>6. QED BY <1>1, <1>2, <1>3, <1>5 DEF CoapInv, CoapInit, ClientsAreTold

(* The invariant behind the theorems below.                                *)
THEOREM CoapInvariant == CoapSpec => []CoapInv
<1>1. CoapInv /\ [CoapNext]_vars => CoapInv'
  <2>1. ASSUME CoapInv, CoapNext PROVE CoapInv'
    <3>1. CASE Peers
      BY <2>1, <3>1, PeersStep, AnswerStep DEF Peers
    <3>2. CASE Applications
      <4>1. ASSUME NEW u \in Uri, NEW first \in 1..(Len(observers_list) + 1), Notify(u, first)
            PROVE  CoapInv'
        BY <2>1, <4>1, NotifyStep
      <4>2. QED BY <2>1, <3>2, <4>1, RequestStep DEF Applications
    <3>3. QED BY <2>1, <3>1, <3>2, CheckStep, ExpireStep DEF CoapNext
  <2>2. ASSUME CoapInv, UNCHANGED vars PROVE CoapInv'
    BY <2>2 DEF vars, transvars, CoapInv, TransactionsOk, Open, OthersOk, ExpiredIsHandled,
       ClientsAreTold, OpenFor, FreeBlocks
  <2>3. QED BY <2>1, <2>2
<1>2. QED BY <1>1, InitCoap, PTL DEF CoapSpec

(* A peer observes a resource once, although the loops that remove         *)
(* observers end at the first, but for resources whose uri begins with     *)
(* that of another one; and the pools and lists agree.                     *)
THEOREM ObservedOnce == CoapSpec => []OneRelation
<1>1. CoapInv => OneRelation
  BY DEF CoapInv, ObserversOk, TransactionsOk, OthersOk, OneRelation, CoapTypeOK, Once, Plain, Open,
     Distinct, IsInjective
<1>2. QED BY <1>1, CoapInvariant, PTL

(* No retransmission is forgotten where coap_check_transactions ends at a  *)
(* transaction that it clears: the others that are due have their events.  *)
THEOREM RetransmissionsCome == CoapSpec => []ExpiredIsHandled
<1>1. CoapInv => ExpiredIsHandled
  BY DEF CoapInv
<1>2. QED BY <1>1, CoapInvariant, PTL

(* A client of coap_blocking_request that waits has a transaction, from    *)
(* the answer to which or the end of which its callback will come.         *)
THEOREM ClientsWillBeTold == CoapSpec => []ClientsAreTold
<1>1. CoapInv => ClientsAreTold
  BY DEF CoapInv
<1>2. QED BY <1>1, CoapInvariant, PTL

====
