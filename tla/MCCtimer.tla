------------------------------ MODULE MCCtimer ------------------------------
(***************************************************************************)
(* Model checking the callback timers, which are interchangeable.          *)
(***************************************************************************)
EXTENDS Ctimer, TLC

Symmetry == Permutations(Timer)

=============================================================================
