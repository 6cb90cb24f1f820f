------------------------------ MODULE MCJournal ------------------------------
(* Mutations of one workspace that overlap, and one that changes nothing.  *)
EXTENDS JournalProperties

CONSTANTS m1, m2, m3

WholePartNothing == [m \in {m1, m2, m3} |->
  CASE m = m1 -> {1, 2, 3} [] m = m2 -> {2} [] OTHER -> {}]
TwoOverlapping == [m \in {m1, m2} |-> IF m = m1 THEN {1, 2} ELSE {2}]
=============================================================================
