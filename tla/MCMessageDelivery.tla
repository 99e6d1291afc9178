-------------------------- MODULE MCMessageDelivery --------------------------
(* Model values and symmetry for TLC runs of MessageDelivery. *)
EXTENDS MessageDelivery, TLC

CONSTANTS m1, m2

MCTwoMessages == {m1, m2}

Symmetry == Permutations(MCTwoMessages)
=============================================================================
