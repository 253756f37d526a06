-------------------------------- MODULE Coap --------------------------------
(***************************************************************************)
(* The CoAP engine of a node, apps/er-coap: the transactions that          *)
(* retransmit confirmable messages, the observers that are notified, and   *)
(* the requests of the node's own clients.  Datagrams and timer events are *)
(* handled one at a time by the process coap_engine.                       *)
(*                                                                         *)
(* Messages may be lost, late, repeated and reordered: an answer may come  *)
(* any number of times and at any time, and matters as long as a           *)
(* transaction or an observer has the message ID that it answers.  Such an *)
(* ID is not taken again: current_mid counts up to 65535 before it meets   *)
(* one, and the peers' own IDs are taken to be others.                     *)
(***************************************************************************)
EXTENDS Naturals, Sequences, FiniteSets, SequencesExt

CONSTANTS
  Peer,             \* addresses with a port
  Uri,              \* observable resources of the node
  Beginnings,         \* pairs <<u, v>>: u is the beginning of v
  Client,           \* processes of the node in coap_blocking_request
  MaxTransactions,  \* COAP_MAX_OPEN_TRANSACTIONS
  MaxObservers,     \* COAP_MAX_OBSERVERS
  MaxRetransmit,    \* COAP_MAX_RETRANSMIT
  NumMids,          \* a bound: message IDs
  MaxEvents,        \* the timer events that the event queue has room for
  NULL

Block == 1..MaxTransactions     \* transactions_memb
Mid == 1..NumMids

\* Between two events only confirmable messages have a transaction.
Transaction == [mid: Mid, peer: Peer, retrans_counter: 0..(MaxRetransmit - 1),
                timer: {"set", "expired"}]
Observer == [peer: Peer, uri: Uri, last_mid: Mid \cup {0}]

ASSUME CoapAssumption ==
  /\ Beginnings \subseteq Uri \X Uri
  /\ {MaxTransactions, MaxObservers, MaxRetransmit, NumMids, MaxEvents} \subseteq Nat \ {0}
  /\ NULL \notin Block \cup Client \cup Transaction

VARIABLES
  transactions_list,  \* blocks
  transactions,       \* the contents of the blocks; NULL: the block is free
  observers_list,     \* the observers themselves
  callback,           \* of a block, from its last client on: it is never cleared
  timer_events,       \* PROCESS_EVENT_TIMER posted to coap_engine
  blocked             \* the clients whose callback has not been called

transvars == <<transactions_list, transactions, callback, timer_events>>
vars == <<transvars, observers_list, blocked>>

CoapTypeOK ==
  /\ transactions \in [Block -> Transaction \cup {NULL}]
  /\ Range(transactions_list) = {b \in Block : transactions[b] # NULL}
  /\ IsInjective(transactions_list)
  /\ callback \in [Block -> Client \cup {NULL}]
  /\ observers_list \in Seq(Observer) /\ Len(observers_list) <= MaxObservers
  /\ timer_events \in 0..MaxEvents
  /\ blocked \subseteq Client

CoapInit ==
  /\ transactions_list = <<>> /\ transactions = [b \in Block |-> NULL]
  /\ callback = [b \in Block |-> NULL]
  /\ observers_list = <<>> /\ timer_events = 0
  /\ blocked = {}

----------------------------------------------------------------------------
(* Blocks, message IDs and lists *)

Nth(S, n) == CHOOSE x \in S : Cardinality({y \in S : y < x}) = n - 1
FreeBlocks == {b \in Block : transactions[b] = NULL}
FirstFree == IF FreeBlocks = {} THEN NULL ELSE Nth(FreeBlocks, 1)     \* memb_alloc

\* What coap_get_mid may return.
FreshMids ==
  Mid \ ({transactions[b].mid : b \in Block \ FreeBlocks}
         \cup {observers_list[i].last_mid : i \in DOMAIN observers_list})

\* The loops of er-coap-observe.c that remove observers stop at the first one,
\* because list_remove clears the link by which they would go on.
RemoveFirstOf(s, S) ==
  IF \E i \in DOMAIN s : s[i] \in S
  THEN RemoveAt(s, CHOOSE i \in DOMAIN s : s[i] \in S /\ \A j \in 1..(i - 1) : s[j] \notin S)
  ELSE s
RemoveByClient(s, p) == RemoveFirstOf(s, {o \in Observer : o.peer = p})
RemoveByMid(s, p, m) == RemoveFirstOf(s, {o \in Observer : o.peer = p /\ o.last_mid = m})
\* memcmp over the length of the observer's own uri
SameUri(o, u) == o.uri = u \/ <<o.uri, u>> \in Beginnings
KeepsOld(s, p, u) == s
RemoveByUri(s, p, u) == RemoveFirstOf(s, {o \in Observer : o.peer = p /\ SameUri(o, u)})
\* A peer uses one token for a resource, and another one for another resource.
RemoveByToken(s, p, u) == RemoveFirstOf(s, {o \in Observer : o.peer = p /\ o.uri = u})

\* coap_clear_transaction of an open one
Clear(b) ==
  /\ transactions' = [transactions EXCEPT ![b] = NULL]
  /\ transactions_list' = RemoveFirst(transactions_list, b)

\* The clients that still wait when the callbacks of these have been called.
NobodyIsTold(blocks) == blocked
Answered(blocks) == blocked \ {callback[b] : b \in blocks}

Confirmable(m, p) == [mid |-> m, peer |-> p, retrans_counter |-> 0, timer |-> "set"]

----------------------------------------------------------------------------
(* coap_receive *)

\* A request is answered, from the buffer of a transaction, at once.  Requests
\* that are not about an observation change nothing that lasts.
Served(observers) ==
  /\ observers_list' = IF FirstFree = NULL THEN observers_list ELSE observers
  /\ UNCHANGED <<transvars, blocked>>

\* add_observer; with no room the existing relationship is gone all the same.
Added(p, u) ==
  LET others == RemoveByUri(observers_list, p, u)
      new == [peer |-> p, uri |-> u, last_mid |-> 0]
  IN IF Len(others) < MaxObservers THEN Append(others, new) ELSE others
Register(p, u) == Served(Added(p, u))

Deregister(p, u) == Served(RemoveByToken(observers_list, p, u))

SentTo(p, m) == \/ \E b \in Block \ FreeBlocks : transactions[b].mid = m /\ transactions[b].peer = p
                \/ \E i \in DOMAIN observers_list :
                     observers_list[i].last_mid = m /\ observers_list[i].peer = p

\* coap_get_transaction_by_mid
OpenWith(m) == {b \in Block \ FreeBlocks : transactions[b].mid = m}

\* An ACK, with the response to a request or without, or a RST, to a message that
\* was sent to p.
Answer(p, m, rst) ==
  /\ SentTo(p, m)
  /\ observers_list' = IF rst THEN RemoveByMid(observers_list, p, m) ELSE observers_list
  /\ \/ OpenWith(m) = {} /\ UNCHANGED <<transactions, transactions_list, blocked>>
     \/ \E b \in OpenWith(m) : Clear(b) /\ blocked' = Answered({b})
  /\ UNCHANGED <<callback, timer_events>>

----------------------------------------------------------------------------
(* Sending *)

\* coap_blocking_request gives up when there is no transaction.
Request(k, p) ==
  /\ k \notin blocked /\ FirstFree # NULL /\ FreshMids # {}
  /\ LET m == Nth(FreshMids, 1) IN
       /\ transactions' = [transactions EXCEPT ![FirstFree] = Confirmable(m, p)]
       /\ transactions_list' = Append(transactions_list, FirstFree)
       /\ callback' = [callback EXCEPT ![FirstFree] = k]
  /\ blocked' = blocked \cup {k}
  /\ UNCHANGED <<observers_list, timer_events>>

\* coap_notify_observers.  The notification becomes confirmable at the first
\* observer, first, whose counter is due, and stays so for all that follow.  An
\* observer for which there is no transaction is left out.
Observers(u) == {i \in DOMAIN observers_list : observers_list[i].uri = u}
Before(S, i) == Cardinality({j \in S : j < i})
NON(u, first) == IF FreeBlocks = {} THEN {} ELSE {i \in Observers(u) : i < first}
CON(u, first) ==
  LET due == {i \in Observers(u) : i >= first}
  IN {i \in due : Before(due, i) < Cardinality(FreeBlocks)}
Notify(u, first) ==
  LET told == NON(u, first) \cup CON(u, first)
      mid == [i \in told |-> Nth(FreshMids, Before(told, i) + 1)]
      con == CON(u, first)
      block == [i \in con |-> Nth(FreeBlocks, Before(con, i) + 1)]
  IN /\ told # {} /\ Cardinality(FreshMids) >= Cardinality(told)
     /\ observers_list' = [i \in DOMAIN observers_list |->
          IF i \in told THEN [observers_list[i] EXCEPT !.last_mid = mid[i]]
          ELSE observers_list[i]]
     /\ transactions' = [b \in Block |->
          IF \E i \in con : block[i] = b
          THEN LET i == CHOOSE i \in con : block[i] = b
               IN Confirmable(mid[i], observers_list[i].peer)
          ELSE transactions[b]]
     /\ transactions_list' =
          transactions_list \o [n \in 1..Cardinality(con) |-> Nth(FreeBlocks, n)]
     /\ UNCHANGED <<callback, timer_events, blocked>>

----------------------------------------------------------------------------
(* Retransmission *)

\* etimer_process waits for room in the event queue.
TimerExpires(b) ==
  /\ transactions[b] # NULL /\ transactions[b].timer = "set" /\ timer_events < MaxEvents
  /\ transactions' = [transactions EXCEPT ![b].timer = "expired"]
  /\ timer_events' = timer_events + 1
  /\ UNCHANGED <<transactions_list, callback, observers_list, blocked>>

Expired(i) == transactions[transactions_list[i]].timer = "expired"
Counter(i) == transactions[transactions_list[i]].retrans_counter
TimesOut(i) == Expired(i) /\ Counter(i) + 1 = MaxRetransmit
NotCounted(t) == [t EXCEPT !.timer = "set"]
Retransmitted(t) == [t EXCEPT !.retrans_counter = @ + 1, !.timer = "set"]

\* The part of the list that coap_check_transactions walks: up to the first
\* transaction that times out, because clearing it clears its link.
FirstOnly == {i \in DOMAIN transactions_list : i = 1}
Walked == {i \in DOMAIN transactions_list : \A j \in 1..(i - 1) : ~TimesOut(j)}

\* coap_check_transactions.  A transaction that times out is sent once more, and
\* then forgotten with an observer of its peer; its client gets no response.
CheckTransactions ==
  /\ timer_events > 0 /\ timer_events' = timer_events - 1
  /\ LET again == {transactions_list[i] : i \in {j \in Walked : Expired(j) /\ ~TimesOut(j)}}
         out == {transactions_list[i] : i \in {j \in Walked : TimesOut(j)}}
         gone == CHOOSE b \in out : TRUE
     IN /\ transactions' = [b \in Block |-> IF b \in again THEN Retransmitted(transactions[b])
                                            ELSE IF b \in out THEN NULL ELSE transactions[b]]
        /\ transactions_list' = IF out = {} THEN transactions_list
                                ELSE RemoveFirst(transactions_list, gone)
        /\ observers_list' = IF out = {} THEN observers_list
                             ELSE RemoveByClient(observers_list, transactions[gone].peer)
        /\ blocked' = Answered(out)
  /\ UNCHANGED callback

Peers == \/ \E p \in Peer, u \in Uri : Register(p, u) \/ Deregister(p, u)
         \/ \E p \in Peer, m \in Mid, rst \in BOOLEAN : Answer(p, m, rst)

Applications == \/ \E k \in Client, p \in Peer : Request(k, p)
                \/ \E u \in Uri : \E first \in 1..(Len(observers_list) + 1) : Notify(u, first)

CoapNext == Peers \/ Applications \/ CheckTransactions \/ \E b \in Block : TimerExpires(b)
CoapSpec == CoapInit /\ [][CoapNext]_vars

CoapFairSpec == /\ CoapSpec
                /\ WF_vars(CheckTransactions)
                /\ \A b \in Block : SF_vars(TimerExpires(b))

----------------------------------------------------------------------------
(* Properties *)

(* The state is well typed, the list of transactions that of the blocks in *)
(* use.  And a peer observes a resource once, so that it is not told twice *)
(* of a change.  Resources whose uri begins with that of another one are   *)
(* the exception: when a peer observes both and registers again for the    *)
(* longer one, the shorter one is what goes (er-coap-observe.c:157).       *)
OneRelation ==
  /\ CoapTypeOK
  /\ \A i, j \in DOMAIN observers_list :
       LET o == observers_list[i] IN
         /\ o.peer = observers_list[j].peer /\ o.uri = observers_list[j].uri
         /\ \A v \in Uri : <<v, o.uri>> \notin Beginnings
         => i = j

(* No retransmission is forgotten although the walk over the transactions  *)
(* may end early: for every transaction whose timer has expired there is   *)
(* an event that is still to be handled.                                   *)
ExpiredIsHandled ==
  Cardinality({b \in Block : transactions[b] # NULL /\ transactions[b].timer = "expired"})
    <= timer_events

(* A client that waits for its callback has a transaction from which the   *)
(* callback will come, whatever happens to the blocks meanwhile.           *)
OpenFor(k) == {b \in Block \ FreeBlocks : callback[b] = k}
ClientsAreTold == \A k \in blocked : OpenFor(k) # {}

(* Only the answer to its request calls a client's callback: a client that *)
(* does not wait has no transaction, and one that waits has one.           *)
CallbacksAreOwn ==
  \A k \in Client : Cardinality(OpenFor(k)) = IF k \in blocked THEN 1 ELSE 0

(* Every confirmable message is given up in the end, although the timer of *)
(* one may expire while the walk ends at another: no block stays with a    *)
(* peer that is gone, and no client waits for ever.                        *)
TransactionsEnd == \A b \in Block : []<>(transactions[b] = NULL)

=============================================================================
