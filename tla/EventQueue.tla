----------------------------- MODULE EventQueue -----------------------------
(***************************************************************************)
(* What the kernel promises of its queue of asynchronous events: a FIFO    *)
(* of at most Capacity entries.  process_post() appends or, when the queue *)
(* is full, fails and changes nothing; do_event() takes the oldest entry.  *)
(* Process.tla implements it with the ring events/nevents/fevent, and the  *)
(* modules of the services that live on top of the kernel compose with it. *)
(***************************************************************************)
EXTENDS Naturals, Sequences

CONSTANTS Entry,      \* what is queued: struct event_data
          Capacity    \* PROCESS_CONF_NUMEVENTS

VARIABLE queue

TypeOK == queue \in Seq(Entry) /\ Len(queue) <= Capacity

Init == queue = <<>>

Full == Len(queue) = Capacity

Post(e) == /\ ~Full
           /\ queue' = Append(queue, e)

Take == /\ queue # <<>>
        /\ queue' = Tail(queue)

Next == Take \/ \E e \in Entry : Post(e)

Spec == Init /\ [][Next]_queue

=============================================================================
