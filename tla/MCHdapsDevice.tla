---------------------------- MODULE MCHdapsDevice ---------------------------
(* The tasks are alike, and an order may be negative. *)
EXTENDS HdapsDevice, TLC

MCOrders == {-1, 2}
Symmetry == Permutations(Tasks)
=============================================================================
