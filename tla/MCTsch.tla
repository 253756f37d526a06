------------------------------- MODULE MCTsch -------------------------------
(***************************************************************************)
(* Model checking TSCH: a slotframe of the minimal link, shared for all    *)
(* neighbours, and a link to u1 whose backup is one from it.               *)
(***************************************************************************)
EXTENDS TschLeave

CONSTANTS u1, u2, u3

Minimal == [addr |-> BC, options |-> {"TX", "RX", "SHARED"}, type |-> "advertising"]
ToU1 == [addr |-> u1, options |-> {"TX"}, type |-> "normal"]
FromU1 == [addr |-> u1, options |-> {"RX"}, type |-> "normal"]
MCSlotframe == <<[link |-> Minimal, backup |-> NULL], [link |-> ToU1, backup |-> FromU1]>>

=============================================================================
