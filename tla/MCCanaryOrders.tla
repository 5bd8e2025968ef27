-------------------------- MODULE MCCanaryOrders --------------------------
(***************************************************************************)
(* A small instance of CanaryOrders for TLC: three dear orders and two     *)
(* cheap ones.                                                             *)
(***************************************************************************)
EXTENDS CanaryOrders, TLC

CONSTANTS dear, cheap

MCOrders == dear \cup cheap
MCLiability == [o \in MCOrders |-> IF o \in dear THEN 2 ELSE 1]

\* Processes, and orders of one liability, are interchangeable.
Symmetry == Permutations(Procs) \cup Permutations(dear) \cup Permutations(cheap)
=============================================================================
