------------------------------- MODULE MCCoap -------------------------------
(***************************************************************************)
(* Model checking the CoAP engine.                                         *)
(***************************************************************************)
EXTENDS Coap
CONSTANTS u1, u2

\* u1 is the beginning of u2, as "a" is of "ab".
MCBeginnings == {<<u1, u2>>}

=============================================================================
