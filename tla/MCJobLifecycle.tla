--------------------------- MODULE MCJobLifecycle ---------------------------
(* Instances of JobLifecycle for TLC: who submits each job.                *)
EXTENDS JobProperties

CONSTANTS j1, j2, o1, c1

OneOwner == [j \in Jobs |-> o1]
=============================================================================
