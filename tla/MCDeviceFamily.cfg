\* A root and its sub-issue: handed off by two workers, solved, deleted and its
\* number given out again, with a crash.
\* Once its one root is deleted nothing is left to do: that is not a deadlock.
CONSTANTS
  Roots = {r1}
  Reporters = {ann}
  NoIssue = NoIssue
  MaxSub = 1
  MaxVersion = 1
  MaxMessages = 3
  MaxOrphans = 1
  Presses = {p1}
  CardUpdatesFail = FALSE
  None = None
  Workers = 2
  MaxCrashes = 1
  MaxDeletes = 1
SPECIFICATION Spec
CONSTRAINT OneHandedOff
INVARIANTS
  FamilySharesTopic
  ClosedCardMeansClosed
CHECK_DEADLOCK FALSE
