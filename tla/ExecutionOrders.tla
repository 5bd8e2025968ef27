--------------------------- MODULE ExecutionOrders ---------------------------
(***************************************************************************)
(* The execution core seen as the orders of OrderIntent: every step of the *)
(* coordinator, of its venues and of its operators is one step of one      *)
(* order, or concerns no order at all.                                     *)
(***************************************************************************)
EXTENDS ExecutionCoordinator

\* The order that a row of execution_legs speaks of: the plan's leg at the
\* plan's venue. The row of a rescue is read by nobody.
IsLegOf(k) == k[2] \in Legs /\ plan[k[1]].venue[k[2]] = k[3]
Claimed ==
  [k \in Key |-> IF IsLegOf(k) THEN legs[k[1]][k[2]].matched ELSE 0]

Intent == INSTANCE OrderIntent WITH Orders <- Key, claimed <- Claimed

\* The coordinator implements OrderIntent: each order is recorded first,
\* submitted once, never unmatched again, and never overstated by its leg's row.
ImplementsOrderIntent == Intent!Spec
=============================================================================
