\* One family and its sub-issue, three solution versions, imports that skip versions,
\* every deletion.
CONSTANTS
  Roots = {r1}
  Reporters = {ann}
  Threads = {t1}
  NoIssue = NoIssue
  MaxSub = 1
  MaxVersion = 3
SPECIFICATION Spec
INVARIANTS
  FamilyIntact
  ClosedMeansLatestConfirmed
PROPERTIES
  HistoryOnlyGrows
  ImplementsContract
