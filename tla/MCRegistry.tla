------------------------------ MODULE MCRegistry ------------------------------
(* ProjectRegistry for TLC: two references of one project's directory.     *)
EXTENDS RegistryProperties, TLC

CONSTANTS r1, r2, i1, i2, i3, a, b

Symmetric ==
  Permutations({r1, r2}) \cup Permutations({a, b}) \cup Permutations({i1, i2, i3})
=============================================================================
