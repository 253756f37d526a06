------------------------------- MODULE MCCsma -------------------------------
(***************************************************************************)
(* Model checking the MAC.                                                 *)
(***************************************************************************)
EXTENDS Csma

=============================================================================
