\* One issue and one submission: failing card updates, lost answers, a crash,
\* retries and a deletion.
\* Once its one root is deleted nothing is left to do: that is not a deadlock.
CONSTANTS
  Roots = {r1}
  Reporters = {ann}
  NoIssue = NoIssue
  MaxSub = 0
  MaxVersion = 1
  MaxMessages = 3
  MaxOrphans = 1
  Presses = {p1}
  CardUpdatesFail = TRUE
  None = None
  Workers = 1
  MaxCrashes = 1
  MaxDeletes = 1
SPECIFICATION FairSpec
INVARIANTS
  TypeOK
PROPERTIES
  LostOnlyToHandoff
  SolutionArrives
  HandoffIsDelivered
CHECK_DEADLOCK FALSE
