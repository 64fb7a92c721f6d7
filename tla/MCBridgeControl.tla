---------------------------- MODULE MCBridgeControl ----------------------------
EXTENDS BridgeControl, TLC

\* Two instances and two commands, interchangeable.
CONSTANTS p1, p2, c1, c2
MCInstances == {p1, p2}
MCInvocations == {c1, c2}
Symmetry == Permutations(MCInstances) \cup Permutations(MCInvocations)
=============================================================================
