------------------------------- MODULE MCRpl -------------------------------
(***************************************************************************)
(* Model checking RPL.                                                     *)
(***************************************************************************)
EXTENDS Rpl

RplTables == {"link_stats", "ds6_neighbors", "nbr_routes", "rpl_parents"}
Symmetry == Permutations(Addr) \cup Permutations(Dest)

=============================================================================
