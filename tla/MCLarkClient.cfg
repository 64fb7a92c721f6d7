\* Jobs of two clients over one file, and one fault: a crash, a failing call or a
\* listener that ends.
CONSTANTS
  Issues = {i1}
  Presses = {p1}
  MaxMessages = 2
  Workers = 1
  MaxVersion = 1
  MaxConfigures = 1
  MaxFaults = 1
  None = None
SPECIFICATION FairSpec
INVARIANTS
  TypeOK
  DeliveredIsComplete
  SendsAreHeard
PROPERTIES
  HandoffIsDelivered
CHECK_DEADLOCK FALSE
