------------------------------- MODULE MCPlans -------------------------------
(* Three plans, one of them twice as large as the others, and two keys.    *)
EXTENDS MutationPlans, TLC

CONSTANTS p1, p2, p3, k1, k2

OneLarge == [p \in Plans |-> IF p = p3 THEN 2 ELSE 1]
Symmetric == Permutations({p1, p2}) \cup Permutations({k1, k2})
=============================================================================
