-------------------------- MODULE MCOrderLifecycle --------------------------
(* The item lists and the small instances of OrderLifecycle TLC checks. *)
EXTENDS OrderLifecycle

CONSTANTS p1, p2

\* One product twice in one request; two products, one after the other.
TwiceTheSame == <<[product |-> p1, qty |-> 1], [product |-> p1, qty |-> 1]>>
TwoProducts == <<[product |-> p1, qty |-> 1], [product |-> p2, qty |-> 2]>>

MCBodies == {TwiceTheSame, TwoProducts}
MCTwoUnits == {<<[product |-> p1, qty |-> 2]>>}

=============================================================================
