------------------------------- MODULE MCDevice -------------------------------
(* The instances of Device that TLC checks, and a state constraint.  From the *)
(* first submission on, at most one issue of the family is handed off, and    *)
(* few jobs and calls are under way.                                          *)
EXTENDS Device, FiniteSets

OneHandedOff ==
  (\E p \in Presses : press[p] # Unpressed) =>
    /\ Cardinality({i \in DOMAIN issue : issue[i].handoff # "none"}) <= 1
    /\ Len(queue) + Cardinality(calls) <= 2
=============================================================================
