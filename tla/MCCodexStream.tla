---------------------------- MODULE MCCodexStream ----------------------------
EXTENDS CodexStream

\* Two messages that are told of in turns.
CONSTANTS i1, i2
MCItems == {i1, i2}
=============================================================================
