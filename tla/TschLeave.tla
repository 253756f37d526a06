----------------------------- MODULE TschLeave -----------------------------
(***************************************************************************)
(* Tsch.tla with the other way to leave the network: eb_input finds, in    *)
(* the main thread, an EB of the time source whose ASN or join priority    *)
(* does not do.  Unlike the slot operation, which leaves at the end of a   *)
(* slot, the main thread may leave, and reset, in the middle of one.       *)
(***************************************************************************)
EXTENDS Tsch

\* tsch_disassociate, called by eb_input.
EbInputLeaves ==
  /\ main.at = "input" /\ main.index # NULL /\ op = Idle
  /\ tsch_is_associated /\ time_source # NULL
  /\ tsch_is_associated' = FALSE
  /\ UNCHANGED <<lockvars, nbrvars, ringvars, current_link, asn, slot, scanning, op, main>>

\* The timer was armed before the node left: the protothread leaves its loop.
SlotAfterLeaving ==
  /\ SlotStep /\ slot = Armed /\ ~tsch_is_associated
  /\ slot' = Off
  /\ UNCHANGED <<tsch_is_associated, current_link, asn, backoff, tx_ringbuf, packet, ringvars>>

TschLeaveSpec == TschInit /\ [][TschNext \/ EbInputLeaves \/ SlotAfterLeaving]_vars

=============================================================================
