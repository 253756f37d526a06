----------------------------- MODULE MCProcess -----------------------------
(***************************************************************************)
(* Model checking the kernel.                                              *)
(***************************************************************************)
EXTENDS ProcessHistory

----------------------------------------------------------------------------
(* Liveness.  The kernel's steps and the returns of the protothreads are   *)
(* taken: main() calls process_run forever, a protothread always returns   *)
(* or yields, and main() starts finitely many processes.                   *)

FairHSpec ==
  /\ HSpec
  /\ WF_hvars(Kernel /\ HNext)
  /\ SF_hvars(BootDone /\ HNext)
  /\ \A p \in Proc : SF_hvars(Return /\ Top.p = p /\ HNext)

(* Every requested poll is served, or its process exits.                   *)
PollServed == \A p \in Proc : p \in owed ~> p \notin owed

(* Every event in the ring is taken out, however often polls are requested *)
(* in the meantime: its slot becomes free.                                 *)
Occupied(i) == \E k \in 0 .. nevents - 1 : (fevent + k) % NumEvents = i
EventServed == \A i \in 0 .. NumEvents - 1 : Occupied(i) ~> ~Occupied(i)

=============================================================================
