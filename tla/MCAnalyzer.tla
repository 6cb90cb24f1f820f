------------------------------ MODULE MCAnalyzer -----------------------------
(* One conversation over pipes that hold one frame.                        *)
EXTENDS AnalyzerProperties
===============================================================================
