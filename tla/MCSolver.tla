------------------------------ MODULE MCSolver ------------------------------
(***************************************************************************)
(* One order awarded under two fillIds (its auction is re-issued) and a    *)
(* second order, on inventory for one of the two.                          *)
(***************************************************************************)
EXTENDS EscrowSolver, TLC

CONSTANTS o1, o2, f1, f2, f3, a1, a2, a3

TwoOrders == [f \in FillIds |-> IF f = f3 THEN o2 ELSE o1]
EachAuction == [f \in FillIds |-> IF f = f3 THEN a3 ELSE a1]
Sym == Permutations({f1, f2})
Amounts == [f \in FillIds |-> IF f = f3 THEN 2 ELSE 1]
Zero == [f \in FillIds |-> 0]
Refundable == [o \in Orders |-> 3]

\* What the theorem on the inventory asks of the deadlines, as here.
ASSUME InstanceFits == FillsFitClaims
=============================================================================
