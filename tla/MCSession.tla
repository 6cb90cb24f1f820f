------------------------------ MODULE MCSession ------------------------------
(* Two requests that share an id, one with an id of its own.         *)
EXTENDS StdioSession

CONSTANTS r1, r2, r3, i1, i2

SharedId == [r \in Requests |-> IF r = r3 THEN i2 ELSE i1]
=============================================================================
