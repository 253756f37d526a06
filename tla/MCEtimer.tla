------------------------------ MODULE MCEtimer ------------------------------
(***************************************************************************)
(* Model checking the event timers: the timers are interchangeable, and so *)
(* are the processes.                                                      *)
(***************************************************************************)
EXTENDS Etimer, TLC

Symmetry == Permutations(Timer) \cup Permutations(Proc)

=============================================================================
