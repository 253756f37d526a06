----------------------------- MODULE MacService -----------------------------
(***************************************************************************)
(* What NETSTACK_MAC.send promises the upper layer: a packet that is taken *)
(* is answered by exactly one call of its sent callback, and the packets   *)
(* to one address are answered in the order in which they were sent,       *)
(* except that acknowledgements do not wait for data.                      *)
(***************************************************************************)
EXTENDS Naturals, Sequences

CONSTANTS
  Addr,       \* link-layer addresses
  Letter,     \* the packets: records with the fields seqno and ack
  Status,     \* what a callback reports
  Nobody      \* no callback is running

VARIABLES
  pending,    \* for every address, the packets that are not answered
  answering   \* the packet whose callback is running, and its status

vars == <<pending, answering>>

Init == /\ pending = [a \in Addr |-> <<>>]
        /\ answering = Nobody

Take(a, p) ==
  /\ pending' = [pending EXCEPT ![a] = IF p.ack THEN <<p>> \o @ ELSE Append(@, p)]
  /\ UNCHANGED answering

\* The packet at position i of a's queue may be answered.
Turn(a, i) == pending[a][i].ack \/ \A j \in 1..(i - 1) : pending[a][j].ack

Answer(a, i, s) ==
  /\ Turn(a, i)
  /\ answering' = [packet |-> pending[a][i], status |-> s]
  /\ pending' = [pending EXCEPT ![a] = SubSeq(@, 1, i - 1)
                                         \o SubSeq(@, i + 1, Len(@))]

Return == /\ answering # Nobody
          /\ answering' = Nobody
          /\ UNCHANGED pending

Next == \/ \E a \in Addr : \/ \E p \in Letter : Take(a, p)
                           \/ \E i \in DOMAIN pending[a], s \in Status : Answer(a, i, s)
        \/ Return

Spec == Init /\ [][Next]_vars

=============================================================================
