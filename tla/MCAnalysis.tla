------------------------------ MODULE MCAnalysis ------------------------------
(* The instance of Analysis that TLC checks. *)
EXTENDS Analysis
=============================================================================
