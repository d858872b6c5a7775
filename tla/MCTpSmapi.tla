------------------------------ MODULE MCTpSmapi -----------------------------
(* A battery that is charged with 2 A and discharged with 1 A. *)
EXTENDS TpSmapi, TLC

MCReadings ==
  {[voltage |-> 12500, current |-> 2000], [voltage |-> 11000, current |-> 64536]}

Symmetry == Permutations(Tasks)
=============================================================================
