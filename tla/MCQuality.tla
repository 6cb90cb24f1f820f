------------------------------ MODULE MCQuality ------------------------------
(* QualityStore for TLC: one job of two members, one of one.               *)
EXTENDS QualityProperties, TLC

CONSTANTS s1, s2, j1, j2, o1

TwoAndOne == [j \in {j1, j2} |-> IF j = j1 THEN 2 ELSE 1]
OneOwner == [j \in {j1, j2} |-> o1]
Symmetric == Permutations({s1, s2})
=============================================================================
